---- MODULE Spec2Model ----
(***************************************************************************)
(* The figlinq remote-contents drive (lib/drive.js) as a state machine.   *)
(*                                                                         *)
(* Every drive operation is an async function; it runs until its next     *)
(* `await` of a remote call and resumes when the response arrives.  One    *)
(* action of the model is one such run: the start of an operation up to    *)
(* its first request, or the arrival of a response up to the next request  *)
(* or the settlement of the operation's promise.  The remote server is not *)
(* part of the repository: every response is drawn from a set of possible  *)
(* responses (transport failure, rejection, success with a payload).       *)
(*                                                                         *)
(* Strings that the code takes apart or puts together (paths, file names,  *)
(* fids) are sequences of tokens in which the separators "/" and ":" are   *)
(* tokens of their own, so that split, join and parseInt are computed.     *)
(***************************************************************************)
EXTENDS Integers, Sequences, FiniteSets, TLC

\* ------------------------------------------------------------------ bounds
\* operation slots: operations that can be in flight at the same time
NumProcs == 2
\* operations started in one behaviour
MaxOps == 2

Procs == 1 .. NumProcs

\* ------------------------------------------------------- JavaScript values
\* a scalar JavaScript value: t is the value's kind, num the number of a
\* number, str the tokens of a string
JSNum(n) == [t |-> "number", num |-> n, str |-> <<>>]
JSStr(s) == [t |-> "string", num |-> 0, str |-> s]
JSUndefined == [t |-> "undefined", num |-> 0, str |-> <<>>]
JSNull == [t |-> "null", num |-> 0, str |-> <<>>]
\* an opaque object (a parsed notebook document)
JSObject == [t |-> "object", num |-> 0, str |-> <<>>]
\* an array (a list of child entries)
JSArray == [t |-> "array", num |-> 0, str |-> <<>>]

\* NaN, the result of parseInt on a string that starts with no digit
JSNaN == [t |-> "NaN", num |-> 0, str |-> <<>>]

\* typeof v
TypeOf(v) ==
  IF v.t \in {"null", "array"} THEN "object"
  ELSE IF v.t = "NaN" THEN "number"
  ELSE v.t

\* the truthiness of v, as `v ? a : b`, `!v` and `v || w` test it
Truthy(v) ==
  CASE v.t \in {"undefined", "null", "NaN"} -> FALSE
    [] v.t = "string" -> v.str # <<>>
    [] v.t = "number" -> v.num # 0
    [] OTHER -> TRUE

\* v || w
OrElse(v, w) == IF Truthy(v) THEN v ELSE w

\* `${v}` : the template-literal rendering of a number or a string
DigitTok(d) ==
  CASE d = 0 -> "0" [] d = 1 -> "1" [] d = 2 -> "2" [] d = 3 -> "3"
    [] d = 4 -> "4" [] d = 5 -> "5" [] d = 6 -> "6" [] d = 7 -> "7"
    [] d = 8 -> "8" [] OTHER -> "9"

RECURSIVE NatToStr(_)
NatToStr(n) == IF n < 10 THEN <<DigitTok(n)>> ELSE NatToStr(n \div 10) \o <<DigitTok(n % 10)>>

ToStr(v) ==
  CASE v.t = "string" -> v.str
    [] v.t = "number" -> IF v.num < 0 THEN <<"-">> \o NatToStr(0 - v.num) ELSE NatToStr(v.num)
    [] OTHER -> <<v.t>>

\* ----------------------------------------------------------------- strings
\* s.split(sep): the pieces of s between the occurrences of sep
RECURSIVE SplitFrom(_, _, _)
SplitFrom(s, sep, cur) ==
  IF s = <<>> THEN <<cur>>
  ELSE IF Head(s) = sep THEN <<cur>> \o SplitFrom(Tail(s), sep, <<>>)
  ELSE SplitFrom(Tail(s), sep, Append(cur, Head(s)))

Split(s, sep) == SplitFrom(s, sep, <<>>)

\* parts.join(sep)
RECURSIVE Join(_, _)
Join(parts, sep) ==
  IF parts = <<>> THEN <<>>
  ELSE IF Len(parts) = 1 THEN parts[1]
  ELSE parts[1] \o <<sep>> \o Join(Tail(parts), sep)

\* parts.slice(0, parts.length - 1)
AllButLast(parts) == SubSeq(parts, 1, Len(parts) - 1)

Last(parts) == parts[Len(parts)]

\* the directory part of a path: split('/'), drop the last piece, join('/')
ParentPath(path) == Join(AllButLast(Split(path, "/")), "/")

\* the leaf name of a path: the last piece of split('/')
LeafName(path) == Last(Split(path, "/"))

IsDigit(c) == c \in {"0", "1", "2", "3", "4", "5", "6", "7", "8", "9"}

DigitVal(c) ==
  CASE c = "0" -> 0 [] c = "1" -> 1 [] c = "2" -> 2 [] c = "3" -> 3
    [] c = "4" -> 4 [] c = "5" -> 5 [] c = "6" -> 6 [] c = "7" -> 7
    [] c = "8" -> 8 [] OTHER -> 9

\* parseInt(s) of a string of decimal digits: the number it denotes
RECURSIVE ParseDigits(_, _)
ParseDigits(s, acc) ==
  IF s = <<>> \/ ~IsDigit(Head(s)) THEN acc
  ELSE ParseDigits(Tail(s), acc * 10 + DigitVal(Head(s)))

ParseInt(s) == IF s = <<>> \/ ~IsDigit(Head(s)) THEN JSNaN ELSE JSNum(ParseDigits(s, 0))

\* fid.split(':')[1] : the local id of a fid "<owner>:<localId>", a string
FidLocalPart(fid) == JSStr(Split(fid, ":")[2])

\* ------------------------------------------------------------------ tables
S(tok) == JSStr(<<tok>>)

\* FILETYPE_TO_TYPE[filetype]
FILETYPE_TO_TYPE(ft) ==
  IF ft.t # "string" THEN JSUndefined
  ELSE CASE ft.str = <<"fold">> -> S("directory")
         [] ft.str = <<"html_text">> -> S("file")
         [] ft.str = <<"grid">> -> S("file")
         [] ft.str = <<"plot">> -> S("file")
         [] ft.str = <<"external_image">> -> S("file")
         [] ft.str = <<"jupyter_notebook">> -> S("notebook")
         [] OTHER -> JSUndefined

\* FILETYPE_TO_MIMETYPE[filetype]
FILETYPE_TO_MIMETYPE(ft) ==
  IF ft.t # "string" THEN JSUndefined
  ELSE CASE ft.str = <<"html_text">> -> S("text/html")
         [] ft.str = <<"grid">> -> S("application/json")
         [] ft.str = <<"jupyter_notebook">> -> S("application/x-ipynb+json")
         [] OTHER -> JSUndefined

\* TYPE_TO_MIMETYPE[type]
TYPE_TO_MIMETYPE(ty) ==
  IF ty.t # "string" THEN JSUndefined
  ELSE CASE ty.str = <<"directory">> -> S("application/x-directory")
         [] ty.str = <<"file">> -> S("text/plain")
         [] ty.str = <<"notebook">> -> S("application/x-ipynb+json")
         [] OTHER -> JSUndefined

\* TYPE_TO_FORMAT[type]
TYPE_TO_FORMAT(ty) ==
  IF ty.t # "string" THEN JSUndefined
  ELSE CASE ty.str = <<"directory">> -> S("json")
         [] ty.str = <<"file">> -> S("text")
         [] ty.str = <<"notebook">> -> S("json")
         [] OTHER -> JSUndefined

\* ------------------------------------------------------ the contents model
\* the fields validateContentsModel looks at, in the order it checks them
CheckedFields == <<"name", "path", "type", "created", "last_modified", "mimetype", "content", "format">>

\* the type name validateContentsModel passes for each field
CheckedType(field) ==
  IF field \in {"mimetype", "content", "format"} THEN "object" ELSE "string"

ModelFields == {"name", "path", "type", "created", "last_modified", "mimetype", "content", "format", "writable"}

\* the value of `model` when the conversion threw: undefined
UndefinedModel ==
  [def |-> FALSE, has |-> {}, f |-> [k \in ModelFields |-> JSUndefined], children |-> <<>>]

\* an item of children.results as transformItem reads it; nil is a null item
Item(filetype, filename, date_modified, creation_time) ==
  [nil |-> FALSE, filetype |-> filetype, filename |-> filename,
   date_modified |-> date_modified, creation_time |-> creation_time]

NullItem ==
  [nil |-> TRUE, filetype |-> JSUndefined, filename |-> JSUndefined,
   date_modified |-> JSUndefined, creation_time |-> JSUndefined]

\* transformItem with the parent path lost: every child sits at the root
transformItemAtRoot(item, localPath) ==
  [name |-> OrElse(item.filename, JSStr(<<>>)),
   path |-> item.filename,
   last_modified |-> item.date_modified,
   created |-> item.creation_time,
   content |-> JSNull,
   format |-> JSNull,
   mimetype |-> OrElse(FILETYPE_TO_MIMETYPE(OrElse(item.filetype, JSStr(<<>>))), JSNull),
   writable |-> TRUE,
   type |-> OrElse(FILETYPE_TO_TYPE(item.filetype), S("file"))]

\* transformItem(item, localPath), for an item that is not null
transformItem(item, localPath) ==
  [name |-> OrElse(item.filename, JSStr(<<>>)),
   path |-> IF Truthy(localPath)
              THEN JSStr(ToStr(localPath) \o <<"/">> \o ToStr(item.filename))
              ELSE item.filename,
   last_modified |-> item.date_modified,
   created |-> item.creation_time,
   content |-> JSNull,
   format |-> JSNull,
   mimetype |-> OrElse(FILETYPE_TO_MIMETYPE(OrElse(item.filetype, JSStr(<<>>))), JSNull),
   writable |-> TRUE,
   type |-> OrElse(FILETYPE_TO_TYPE(item.filetype), S("file"))]

\* the payload handed to convertToJupyterApi as `data`: null, an object
\* without children, or an object with children.results
DataNull == [t |-> "null", results |-> <<>>]
DataObject == [t |-> "object", results |-> <<>>]
DataListing(results) == [t |-> "listing", results |-> results]

\* convertToJupyterApi throws exactly when transformItem meets a null item
ConvertThrows(data) ==
  data.t = "listing" /\ \E i \in 1 .. Len(data.results) : data.results[i].nil

\* convertToJupyterApi(convOptions), when it does not throw
convertToJupyterApi(data, type, name, path, created, last_modified) ==
  [def |-> TRUE,
   has |-> ModelFields,
   f |-> [name |-> name,
          path |-> path,
          last_modified |-> last_modified,
          created |-> created,
          content |-> CASE data.t = "listing" -> JSArray
                        [] data.t = "object" -> JSObject
                        [] OTHER -> JSNull,
          format |-> OrElse(TYPE_TO_FORMAT(OrElse(type, JSStr(<<>>))), JSNull),
          mimetype |-> OrElse(TYPE_TO_MIMETYPE(OrElse(type, JSStr(<<>>))), JSNull),
          writable |-> [t |-> "boolean", num |-> 1, str |-> <<>>],
          type |-> type],
   children |-> IF data.t = "listing"
                  THEN [i \in 1 .. Len(data.results) |-> transformItem(data.results[i], path)]
                  ELSE <<>>]

\* TryConvert that answers a failed conversion with an empty listing
TryConvertLenient(data, type, name, path, created, last_modified) ==
  convertToJupyterApi(IF ConvertThrows(data) THEN DataListing(<<>>) ELSE data,
                      type, name, path, created, last_modified)

\* the try/catch around the conversion: the model, or undefined when it threw
TryConvert(data, type, name, path, created, last_modified) ==
  IF ConvertThrows(data) THEN UndefinedModel
  ELSE convertToJupyterApi(data, type, name, path, created, last_modified)

\* validateProperty(object, name, typeName): "ok", or the error it throws
validateProperty(object, name, typeName) ==
  IF name \notin object.has THEN "missing"
  ELSE IF typeName = "object"
    THEN IF TypeOf(object.f[name]) # "undefined" THEN "ok" ELSE "type"
    ELSE IF TypeOf(object.f[name]) = typeName THEN "ok" ELSE "type"

\* the index of the first checked field that validateProperty rejects, 0 if none
RECURSIVE FirstInvalid(_, _)
FirstInvalid(model, i) ==
  IF i > Len(CheckedFields) THEN 0
  ELSE IF validateProperty(model, CheckedFields[i], CheckedType(CheckedFields[i])) # "ok" THEN i
  ELSE FirstInvalid(model, i + 1)

\* validateContentsModel that looks at the name only
validateContentsModelNameOnly(model) ==
  model.def /\ validateProperty(model, "name", "string") = "ok"

\* validateContentsModel(model): does it return without throwing
validateContentsModel(model) == model.def /\ FirstInvalid(model, 1) = 0

\* ------------------------------------------------------------------ inputs
Root == <<>>
PathA == <<"A">>
PathD == <<"d">>
PathE == <<"e">>
PathAD == <<"A", "/", "d">>
PathAE == <<"A", "/", "e">>
PathBD == <<"B", "/", "d">>

\* localPath arguments of get
GetPaths == {Root, PathA, PathAD}
\* localPath arguments of delete
DeletePaths == {PathD, PathAD}
\* oldLocalPath and newLocalPath arguments of rename
RenameOldPaths == {PathA, PathD, PathAD}
RenameNewPaths == {PathE, PathAE, PathBD}
\* options.type and options.path of newUntitled
NewTypes == {S("notebook"), S("directory")}
NewPaths == {JSUndefined, JSStr(Root), JSStr(PathA)}
\* localPath, options.path and options.type of save and saveNotebookAs
SavePaths == {PathD, PathAD}
SaveOptPaths == {JSUndefined, JSStr(Root), JSStr(PathD), JSStr(PathAD)}
SaveAsOptPaths == {JSStr(PathD), JSStr(PathAD)}
SaveTypes == {S("notebook"), JSUndefined}

\* -------------------------------------------------------- remote responses
\* fids "<owner>:<localId>" the server hands out
FidSet == {<<"4", ":", "7">>, <<"4", ":", "9">>}

\* the body of a successful files/lookup
LookupData ==
  {d \in [fid : FidSet,
          filetype : {S("fold"), S("jupyter_notebook"), S("grid")},
          filename : {S("doc")},
          parent : {JSNum(-1), JSNum(3)},
          date_modified : {S("t1")},
          creation_time : {S("t0")}] :
     d.parent = JSNum(-1) <=> d.fid = <<"4", ":", "7">>}

\* `lookup` before any lookup was made
NoLookup ==
  [fid |-> <<>>, filetype |-> JSUndefined, filename |-> JSUndefined,
   parent |-> JSUndefined, date_modified |-> JSUndefined, creation_time |-> JSUndefined]

\* the stand-in get uses for the home folder instead of a lookup
HomeLookup ==
  [fid |-> <<>>, filetype |-> JSUndefined, filename |-> JSUndefined,
   parent |-> JSUndefined, date_modified |-> JSStr(<<>>), creation_time |-> JSStr(<<>>)]

\* the body of a response as response.json() meets it: text that is no JSON,
\* or a JSON object; hasErrors: it has an `errors` array, and errors[i] is the
\* `message` of the i-th element of that array (undefined when it has none)
ErrorBody(parses, hasErrors, errors) ==
  [parses |-> parses, hasErrors |-> hasErrors, errors |-> errors]
NotJson == ErrorBody(FALSE, FALSE, <<>>)
PlainBody == ErrorBody(TRUE, FALSE, <<>>)
ErrorBodies ==
  {NotJson, PlainBody, ErrorBody(TRUE, TRUE, <<JSUndefined>>),
   ErrorBody(TRUE, TRUE, <<S("boom"), S("bang")>>)}

\* response.statusText, the reason phrase that comes with the status
StatusText(status) ==
  CASE status = 200 -> <<"OK">>
    [] status = 201 -> <<"Created">>
    [] status = 400 -> <<"Bad", " ", "Request">>
    [] status = 404 -> <<"Not", " ", "Found">>
    [] OTHER -> <<>>

\* a response: net is a transport failure (fetch rejected), status the HTTP
\* status, eb the body as an error body, data the body as a payload
NetFailure(d) ==
  [net |-> TRUE, status |-> 0, statusText |-> <<>>, eb |-> NotJson, data |-> d]
Http(status, d) ==
  [net |-> FALSE, status |-> status, statusText |-> StatusText(status), eb |-> PlainBody,
   data |-> d]
HttpError(status, d, eb) == [Http(status, d) EXCEPT !.eb = eb]

LookupResponses ==
  {NetFailure(NoLookup)} \cup {HttpError(404, NoLookup, e) : e \in ErrorBodies}
    \cup {Http(200, d) : d \in LookupData}

\* the body of a PATCH response: the file record
PatchData == [date_modified : {S("t2"), JSUndefined}, creation_time : {S("t0")}]
NoPatchData == [date_modified |-> JSUndefined, creation_time |-> JSUndefined]

PatchResponses ==
  {NetFailure(NoPatchData)} \cup {HttpError(404, NoPatchData, e) : e \in ErrorBodies}
    \cup {Http(st, d) : st \in {200, 201}, d \in PatchData}

\* the body of a creation response: {file: {...}}, or a body without `file`
\* `file` is what convertToJupyterApi reads of data.file: an object without
\* children, or one whose children.results holds a null
CreateData ==
  [hasFile : {TRUE}, filename : {S("n")},
   date_modified : {S("t2"), JSUndefined}, creation_time : {S("t0")}, file : {DataObject}]
    \cup {[hasFile |-> TRUE, filename |-> S("n"), date_modified |-> S("t2"),
           creation_time |-> S("t0"), file |-> DataListing(<<NullItem>>)]}
NoCreateData ==
  [hasFile |-> FALSE, filename |-> JSUndefined,
   date_modified |-> JSUndefined, creation_time |-> JSUndefined, file |-> DataNull]

CreateResponses ==
  {NetFailure(NoCreateData), Http(200, NoCreateData), Http(201, NoCreateData)}
    \cup {HttpError(400, NoCreateData, e) : e \in ErrorBodies}
    \cup {Http(201, d) : d \in CreateData}

\* the response of the trash call; its body is not read
TrashResponses ==
  {NetFailure(DataNull), Http(200, DataNull), Http(201, DataNull)}
    \cup {HttpError(404, DataNull, e) : e \in ErrorBodies}

\* the body of a copy response, which copy takes as the model: an object
\* with the fields `has`, or null
CopiedModel ==
  [def |-> TRUE, has |-> ModelFields,
   f |-> [name |-> S("c"), path |-> JSStr(<<"A", "/", "c">>), type |-> S("notebook"),
          created |-> S("t0"), last_modified |-> S("t2"), mimetype |-> JSNull,
          content |-> JSNull, format |-> JSNull,
          writable |-> [t |-> "boolean", num |-> 1, str |-> <<>>]],
   children |-> <<>>]
\* CopiedModel without the fields `missing`
Lacking(missing) ==
  [CopiedModel EXCEPT !.has = @ \ missing,
                      !.f = [k \in ModelFields |-> IF k \in missing THEN JSUndefined ELSE @[k]]]
CopyData ==
  {CopiedModel, Lacking({"writable"}), Lacking({"path", "created"}), Lacking({"mimetype"}),
   [Lacking({"type"}) EXCEPT !.f["name"] = JSNum(1)],
   [CopiedModel EXCEPT !.f["last_modified"] = JSNull],
   UndefinedModel}

CopyResponses ==
  {NetFailure(UndefinedModel), Http(200, CopiedModel)}
    \cup {HttpError(400, UndefinedModel, e) : e \in ErrorBodies}
    \cup {Http(201, d) : d \in CopyData}

\* the bodies of folders/{fid} and jupyter-notebooks/{fid}/content
GoodItem == Item(S("jupyter_notebook"), S("n"), S("t3"), S("t0"))
BareItem == Item(S("grid"), JSUndefined, JSUndefined, S("t0"))

ContentData ==
  {DataObject, DataListing(<<>>), DataListing(<<GoodItem>>),
   DataListing(<<GoodItem, BareItem>>), DataListing(<<NullItem>>)}

ContentResponses ==
  {NetFailure(DataNull)} \cup {HttpError(404, DataNull, e) : e \in ErrorBodies}
    \cup {Http(200, d) : d \in ContentData}

\* ------------------------------------------------------------------- state
VARIABLES
  pc,     \* pc[p]: where operation p is suspended, "idle" or "done"
  op,     \* op[p]: the operation and its arguments
  lk,     \* lk[p]: the result of the operation's first lookup
  loc,    \* loc[p]: the locals parent id, refreshBrowser, fileName
  trace,  \* trace[p]: requests issued, events emitted, refreshes triggered, in order
  res,    \* res[p]: the settlement of the operation's promise
  nOps,   \* operations started so far
  last,   \* last[p]: the response that settled the operation
  stats,  \* events emitted and mutating operations resolved so far; again: the
          \* operation under way repeats the path of the one before
  drive   \* the fields of the Drive object

vars == <<pc, op, lk, loc, trace, res, nOps, last, stats, drive>>

\* ------------------------------------------------------------ trace items
NoValue == [k |-> "none", path |-> <<>>]
NullValue == [k |-> "null", path |-> <<>>]
PathValue(path) == [k |-> "path", path |-> path]
ModelValue(model) == [k |-> "model", path |-> ToStr(model.f["path"])]

\* a request handed to ServerConnection.makeRequest
Req(method, ep, fid, path, parent, fname) ==
  [a |-> "req", method |-> method, ep |-> ep, fid |-> fid, path |-> path,
   parent |-> parent, fname |-> fname, etype |-> "", old |-> NoValue, new |-> NoValue,
   status |-> 0, ft |-> JSUndefined]

\* this._fileChanged.emit({type, oldValue, newValue})
Ev(etype, old, new) ==
  [a |-> "event", method |-> "", ep |-> "", fid |-> <<>>, path |-> <<>>,
   parent |-> JSUndefined, fname |-> <<>>, etype |-> etype, old |-> old, new |-> new,
   status |-> 0, ft |-> JSUndefined]

\* this.refreshBrowser()
Refresh ==
  [a |-> "refresh", method |-> "", ep |-> "", fid |-> <<>>, path |-> <<>>,
   parent |-> JSUndefined, fname |-> <<>>, etype |-> "", old |-> NoValue, new |-> NoValue,
   status |-> 0, ft |-> JSUndefined]

\* this.saveNotebookAs(options), called from save
CallSaveNotebookAs ==
  [a |-> "call", method |-> "", ep |-> "saveNotebookAs", fid |-> <<>>, path |-> <<>>,
   parent |-> JSUndefined, fname |-> <<>>, etype |-> "", old |-> NoValue, new |-> NoValue,
   status |-> 0, ft |-> JSUndefined]

\* the response the awaited makeRequest settled with: the HTTP status, or -1
\* for a transport failure (handleRequest threw a NetworkError)
Got(r) ==
  [a |-> "resp", method |-> "", ep |-> "", fid |-> <<>>, path |-> <<>>,
   parent |-> JSUndefined, fname |-> <<>>, etype |-> "", old |-> NoValue, new |-> NoValue,
   status |-> IF r.net THEN -1 ELSE r.status, ft |-> JSUndefined]

\* the response a lookup settled with: the status and, from the body, the
\* fid, the parent and the filetype
GotLookup(r) ==
  [a |-> "resp", method |-> "", ep |-> "", fid |-> r.data.fid, path |-> <<>>,
   parent |-> r.data.parent, fname |-> <<>>, etype |-> "", old |-> NoValue, new |-> NoValue,
   status |-> IF r.net THEN -1 ELSE r.status, ft |-> r.data.filetype]

\* ------------------------------------------------------------------- init
NoOp == [kind |-> "none", path |-> <<>>, path2 |-> <<>>, opath |-> JSUndefined, type |-> JSUndefined]
NoLoc == [parent |-> JSUndefined, refreshBrowser |-> FALSE, fileName |-> <<>>]
NoRes ==
  [st |-> "none", err |-> "", msg |-> <<>>, status |-> 0, val |-> "", model |-> UndefinedModel,
   id |-> <<>>]
\* `response` before any response arrived
NoResponse ==
  [net |-> FALSE, status |-> 0, statusText |-> <<>>, eb |-> NotJson, data |-> DataNull]
NoStats == [events |-> 0, succeeded |-> 0, again |-> FALSE]

\* the name the plugin constructs its drive with
DRIVE_NAME == "Figlinq"
\* the default of options.apiEndpoint
SERVICE_DRIVE_URL == "v2/"

\* new Drive({serverSettings, name: DRIVE_NAME, browser}); listeners: the
\* connections of the fileChanged signal are in place
NewDrive ==
  [browser |-> "browser", name |-> DRIVE_NAME, apiEndpoint |-> SERVICE_DRIVE_URL,
   serverSettings |-> "serverSettings", isDisposed |-> FALSE, listeners |-> TRUE]

Init ==
  /\ pc = [p \in Procs |-> "idle"]
  /\ op = [p \in Procs |-> NoOp]
  /\ lk = [p \in Procs |-> NoLookup]
  /\ loc = [p \in Procs |-> NoLoc]
  /\ trace = [p \in Procs |-> <<>>]
  /\ res = [p \in Procs |-> NoRes]
  /\ nOps = 0
  /\ last = [p \in Procs |-> NoResponse]
  /\ stats = NoStats
  /\ drive = NewDrive

\* ---------------------------------------------------------------- helpers
\* the operations that change the remote tree
MutatingKinds == {"newUntitled", "saveNotebookAs", "delete", "rename", "save", "copy"}

\* how many of the items are of kind a
CountOf(items, a) == Cardinality({i \in DOMAIN items : items[i].a = a})
\* the running totals after operation o did `items` and reached settlement
\* s: the events emitted and the mutating operations that resolved
Account(o, items, s) ==
  [events |-> stats.events + CountOf(items, "event"),
   succeeded |-> stats.succeeded
                   + (IF s.st = "resolved" /\ o.kind \in MutatingKinds THEN 1 ELSE 0),
   again |-> stats.again]

\* operation o resolves a path by a lookup first: get, delete and rename of
\* a non-empty path, save with a non-empty options.path
KeyedByPath(o) ==
  \/ o.kind \in {"get", "delete", "rename"} /\ Truthy(JSStr(o.path))
  \/ o.kind = "save" /\ Truthy(o.opath)

\* the path such an operation looks up
LookupKey(o) == IF o.kind = "save" THEN ToStr(o.opath) ELSE o.path

\* o is called right after an operation that resolved on the same path
CalledAgain(p, o) ==
  /\ KeyedByPath(o) /\ KeyedByPath(op[p])
  /\ LookupKey(o) = LookupKey(op[p])
  /\ pc[p] = "done" /\ res[p].st = "resolved"

\* Start of a drive that serialises its operations: a call waits until no
\* other operation is under way
StartExclusive(p, o, nextpc, l, lc, items, r) ==
  /\ \A q \in Procs : q = p \/ pc[q] \in {"idle", "done"}
  /\ pc[p] \in {"idle", "done"}
  /\ nOps < MaxOps
  /\ nOps' = nOps + 1
  /\ op' = [op EXCEPT ![p] = o]
  /\ pc' = [pc EXCEPT ![p] = nextpc]
  /\ lk' = [lk EXCEPT ![p] = l]
  /\ loc' = [loc EXCEPT ![p] = lc]
  /\ trace' = [trace EXCEPT ![p] = items]
  /\ res' = [res EXCEPT ![p] = r]
  /\ last' = [last EXCEPT ![p] = NoResponse]
  /\ stats' = [Account(o, items, r) EXCEPT !.again = CalledAgain(p, o)]
  /\ UNCHANGED drive

\* an operation is called: a free slot takes it and runs to its first await
Start(p, o, nextpc, l, lc, items, r) ==
  /\ pc[p] \in {"idle", "done"}
  /\ nOps < MaxOps
  /\ nOps' = nOps + 1
  /\ op' = [op EXCEPT ![p] = o]
  /\ pc' = [pc EXCEPT ![p] = nextpc]
  /\ lk' = [lk EXCEPT ![p] = l]
  /\ loc' = [loc EXCEPT ![p] = lc]
  /\ trace' = [trace EXCEPT ![p] = items]
  /\ res' = [res EXCEPT ![p] = r]
  /\ last' = [last EXCEPT ![p] = NoResponse]
  /\ stats' = [Account(o, items, r) EXCEPT !.again = CalledAgain(p, o)]
  /\ UNCHANGED drive

\* the response g arrived and the operation runs on to its next await
Continue(p, g, nextpc, l, lc, items) ==
  /\ pc' = [pc EXCEPT ![p] = nextpc]
  /\ lk' = [lk EXCEPT ![p] = l]
  /\ loc' = [loc EXCEPT ![p] = lc]
  /\ trace' = [trace EXCEPT ![p] = @ \o <<g>> \o items]
  /\ stats' = Account(op[p], items, res[p])
  /\ UNCHANGED <<op, res, nOps, last, drive>>

\* SettleRead of a drive that gives up after a failure: a rejection sets the
\* disposed flag
SettleReadDisposing(p, g, l, items, s, r) ==
  /\ pc' = [pc EXCEPT ![p] = "done"]
  /\ lk' = [lk EXCEPT ![p] = l]
  /\ trace' = [trace EXCEPT ![p] = @ \o <<g>> \o items]
  /\ res' = [res EXCEPT ![p] = s]
  /\ last' = [last EXCEPT ![p] = r]
  /\ stats' = Account(op[p], items, s)
  /\ drive' = [drive EXCEPT !.isDisposed = @ \/ s.st = "rejected"]
  /\ UNCHANGED <<op, loc, nOps>>

\* the response r arrived, g in the trace, and the operation's promise is
\* settled with s
SettleRead(p, g, l, items, s, r) ==
  /\ pc' = [pc EXCEPT ![p] = "done"]
  /\ lk' = [lk EXCEPT ![p] = l]
  /\ trace' = [trace EXCEPT ![p] = @ \o <<g>> \o items]
  /\ res' = [res EXCEPT ![p] = s]
  /\ last' = [last EXCEPT ![p] = r]
  /\ stats' = Account(op[p], items, s)
  /\ UNCHANGED <<op, loc, nOps, drive>>

\* as SettleRead, for the operations whose last response is in the trace only
Settle(p, g, l, items, s) == SettleRead(p, g, l, items, s, last[p])

Pending == [NoRes EXCEPT !.st = "pending"]
Rejected(err) == [NoRes EXCEPT !.st = "rejected", !.err = err]
Resolved(model) == [NoRes EXCEPT !.st = "resolved", !.val = "model", !.model = model]
\* resolved with a value that is no contents model
ResolvedWith(val) == [NoRes EXCEPT !.st = "resolved", !.val = val]

\* the error a remote call that did not return `expected` is turned into:
\* handleRequest's NetworkError, or ResponseError.create(response)
CallError(r) == IF r.net THEN "NetworkError" ELSE "ResponseError"

\* ResponseError._defaultMessage(response)
DefaultMessage(response) ==
  <<"Invalid response:", " ">> \o NatToStr(response.status) \o <<" ">> \o response.statusText

\* ResponseError.create(response): the message of the error it makes.
\* bodyUsed: the body was read before, so that response.json() rejects
ResponseErrorCreate(response, bodyUsed) ==
  IF bodyUsed \/ ~response.eb.parses THEN DefaultMessage(response)
  ELSE LET message == IF response.eb.hasErrors /\ Len(response.eb.errors) >= 1
                        THEN response.eb.errors[1] ELSE JSUndefined
       IN IF message = JSUndefined THEN DefaultMessage(response) ELSE ToStr(message)

\* the rejection of an operation whose remote call r did not return the
\* expected status: the NetworkError, or the ResponseError carrying r
CallFailure(r, bodyUsed) ==
  [Rejected(CallError(r)) EXCEPT
     !.msg = IF r.net THEN <<>> ELSE ResponseErrorCreate(r, bodyUsed),
     !.status = IF r.net THEN 0 ELSE r.status]

\* lookup(localPath): the request it issues
LookupReq(path) == Req("GET", "files/lookup", <<>>, path, JSUndefined, <<>>)

\* lookup(localPath): it returns the body when the status is 200, else throws
LookupOk(r) == ~r.net /\ r.status = 200

\* the error validateContentsModel throws: hasOwnProperty of undefined is a
\* TypeError, a missing or mistyped property an Error
ValidationError(model) == IF model.def THEN "ValidationError" ELSE "TypeError"

\* the message of the Error validateProperty throws for the first field it rejects
ValidationMessage(model) ==
  IF ~model.def \/ FirstInvalid(model, 1) = 0 THEN <<>>
  ELSE LET name == CheckedFields[FirstInvalid(model, 1)] IN
    IF validateProperty(model, name, CheckedType(name)) = "missing"
      THEN <<"Missing property '", name, "'">>
      ELSE <<"Property '", name, "' is not of type '", CheckedType(name), "'">>

\* the rejection of an operation whose model validateContentsModel threw on
ValidationFailure(model) ==
  [Rejected(ValidationError(model)) EXCEPT !.msg = ValidationMessage(model)]

\* -------------------------------------------------------------------- get
\* GetEndpoint with the last branch lost: whatever is no notebook is opened
\* as a folder
GetEndpointLenient(lookup) ==
  IF lookup.filetype = S("jupyter_notebook") THEN "jupyter-notebooks/{fid}/content"
  ELSE "folders/{fid}"

\* the content endpoint get chooses from the looked-up filetype; "" when it
\* throws "Currently you can only open notebooks and folders!"
GetEndpoint(lookup) ==
  IF lookup.filetype = S("fold") THEN "folders/{fid}"
  ELSE IF lookup.filetype = S("jupyter_notebook") THEN "jupyter-notebooks/{fid}/content"
  ELSE ""

\* GetCall that takes every path for the home folder: no lookup
GetCallHome(p, path) ==
  Start(p, [NoOp EXCEPT !.kind = "get", !.path = path], "get_content",
        HomeLookup, NoLoc,
        <<Req("GET", "folders/home", <<>>, <<>>, JSUndefined, <<>>)>>, Pending)

\* get(localPath): up to the lookup, or for the home folder up to folders/home
GetCall(p, path) ==
  IF Truthy(JSStr(path))
    THEN Start(p, [NoOp EXCEPT !.kind = "get", !.path = path], "get_lookup",
               NoLookup, NoLoc, <<LookupReq(path)>>, Pending)
    ELSE Start(p, [NoOp EXCEPT !.kind = "get", !.path = path], "get_content",
               HomeLookup, NoLoc,
               <<Req("GET", "folders/home", <<>>, <<>>, JSUndefined, <<>>)>>, Pending)

\* get: the lookup returned
GetLookupResp(p, r) ==
  /\ pc[p] = "get_lookup"
  /\ IF ~LookupOk(r) THEN SettleRead(p, GotLookup(r), lk[p], <<>>, CallFailure(r, FALSE), r)
     ELSE IF GetEndpoint(r.data) = "" THEN Settle(p, GotLookup(r), r.data, <<>>, Rejected("UnsupportedType"))
     ELSE Continue(p, GotLookup(r), "get_content", r.data, loc[p],
                   <<Req("GET", GetEndpoint(r.data), r.data.fid, <<>>, JSUndefined, <<>>)>>)

\* GetModel that names no entry: the name is '' whatever the lookup reports
GetModelUnnamed(path, lookup, data) ==
  TryConvert(data,
             IF Truthy(JSStr(path)) THEN FILETYPE_TO_TYPE(lookup.filetype) ELSE FILETYPE_TO_TYPE(S("fold")),
             JSStr(<<>>),
             JSStr(path), lookup.creation_time, lookup.date_modified)

\* the model get builds from the content response
GetModel(path, lookup, data) ==
  TryConvert(data,
             IF Truthy(JSStr(path)) THEN FILETYPE_TO_TYPE(lookup.filetype) ELSE FILETYPE_TO_TYPE(S("fold")),
             IF Truthy(JSStr(path)) THEN lookup.filename ELSE JSStr(<<>>),
             JSStr(path), lookup.creation_time, lookup.date_modified)

\* get: the content request returned. On a status other than 200 the body is
\* read by console.log(response.json()) before ResponseError.create reads it
GetContentResp(p, r) ==
  /\ pc[p] = "get_content"
  /\ IF r.net \/ r.status # 200 THEN SettleRead(p, Got(r), lk[p], <<>>, CallFailure(r, ~r.net), r)
     ELSE LET model == GetModel(op[p].path, lk[p], r.data) IN
       IF validateContentsModel(model)
         THEN SettleRead(p, Got(r), lk[p], <<>>, Resolved(model), r)
         ELSE SettleRead(p, Got(r), lk[p], <<>>, ValidationFailure(model), r)

\* ----------------------------------------------------------------- delete
\* delete(localPath): up to the lookup
DeleteCall(p, path) ==
  Start(p, [NoOp EXCEPT !.kind = "delete", !.path = path], "delete_lookup",
        NoLookup, NoLoc, <<LookupReq(path)>>, Pending)

\* TrashReq as a hard delete: DELETE files/{fid}
TrashReqHardDelete(fid) == Req("DELETE", "files/{fid}", fid, <<>>, JSUndefined, <<>>)

\* the trash request: POST files/{fid}/trash
TrashReq(fid) == Req("POST", "files/{fid}/trash", fid, <<>>, JSUndefined, <<>>)

\* delete: the lookup returned
DeleteLookupResp(p, r) ==
  /\ pc[p] = "delete_lookup"
  /\ IF ~LookupOk(r) THEN SettleRead(p, GotLookup(r), lk[p], <<>>, CallFailure(r, FALSE), r)
     ELSE Continue(p, GotLookup(r), "delete_trash", r.data, loc[p], <<TrashReq(r.data.fid)>>)

\* DeleteRefreshes with the test of the parent lost
DeleteRefreshesAlways(lookup) == TRUE

\* parent === -1 : the deleted item was in the root folder
DeleteRefreshes(lookup) == lookup.parent = JSNum(-1)

\* what delete does after the trash call returned 200
DeleteEffects(path, lookup) ==
  <<Ev("delete", PathValue(path), NullValue)>>
    \o (IF DeleteRefreshes(lookup) THEN <<Refresh>> ELSE <<>>)

\* DeleteTrashResp that retries: a trash request that failed is issued again,
\* up to a trace of six items
DeleteTrashRespRetry(p, r) ==
  /\ pc[p] = "delete_trash"
  /\ IF r.net \/ r.status # 200
       THEN IF Len(trace[p]) < 6
              THEN Continue(p, Got(r), "delete_trash", lk[p], loc[p], <<TrashReq(lk[p].fid)>>)
              ELSE SettleRead(p, Got(r), lk[p], <<>>, CallFailure(r, FALSE), r)
     ELSE Settle(p, Got(r), lk[p], DeleteEffects(op[p].path, lk[p]), Resolved(UndefinedModel))

\* delete: the trash request returned
DeleteTrashResp(p, r) ==
  /\ pc[p] = "delete_trash"
  /\ IF r.net \/ r.status # 200 THEN SettleRead(p, Got(r), lk[p], <<>>, CallFailure(r, FALSE), r)
     ELSE Settle(p, Got(r), lk[p], DeleteEffects(op[p].path, lk[p]), Resolved(UndefinedModel))

\* ----------------------------------------------------------------- rename
\* RenameParentCase that looks the new parent up without comparing it with
\* the old one
RenameParentCaseEager(oldLocalPath, newLocalPath) ==
  IF ParentPath(newLocalPath) = <<>> THEN "root" ELSE "lookup"

\* RenameParentCase that never looks the new parent up
RenameParentCaseLazy(oldLocalPath, newLocalPath) ==
  IF ParentPath(newLocalPath) = <<>> THEN "root" ELSE "same"

\* RenameParentCase that compares the two parent paths before it tests for
\* the root directory
RenameParentCaseCompareFirst(oldLocalPath, newLocalPath) ==
  IF ParentPath(oldLocalPath) # ParentPath(newLocalPath) THEN "lookup"
  ELSE IF ParentPath(newLocalPath) = <<>> THEN "root"
  ELSE "same"

\* how rename obtains the target parent id: "root" (-1), "lookup" (look up
\* the new parent path) or "same" (reuse the parent of the old path's lookup)
RenameParentCase(oldLocalPath, newLocalPath) ==
  IF ParentPath(newLocalPath) = <<>> THEN "root"
  ELSE IF ParentPath(oldLocalPath) # ParentPath(newLocalPath) THEN "lookup"
  ELSE "same"

\* PATCH files/{fid} with {filename, parent, fid}
RenameReq(fid, newLocalPath, parent) ==
  Req("PATCH", "files/{fid}", fid, <<>>, parent, LeafName(newLocalPath))

\* rename(oldLocalPath, newLocalPath): up to the lookup of the old path
RenameCall(p, old, new) ==
  Start(p, [NoOp EXCEPT !.kind = "rename", !.path = old, !.path2 = new], "rename_lookup",
        NoLookup, NoLoc, <<LookupReq(old)>>, Pending)

\* rename: the lookup of the old path returned
RenameLookupResp(p, r) ==
  /\ pc[p] = "rename_lookup"
  /\ IF ~LookupOk(r) THEN SettleRead(p, GotLookup(r), lk[p], <<>>, CallFailure(r, FALSE), r)
     ELSE LET case == RenameParentCase(op[p].path, op[p].path2) IN
       IF case = "lookup"
         THEN Continue(p, GotLookup(r), "rename_parent", r.data, loc[p],
                       <<LookupReq(ParentPath(op[p].path2))>>)
         ELSE LET parent == IF case = "root" THEN JSNum(-1) ELSE r.data.parent IN
           Continue(p, GotLookup(r), "rename_patch",
                    [r.data EXCEPT !.filename = JSStr(LeafName(op[p].path2)), !.parent = parent],
                    [loc[p] EXCEPT !.parent = parent],
                    <<RenameReq(r.data.fid, op[p].path2, parent)>>)

\* rename: the lookup of the new parent path returned
RenameParentResp(p, r) ==
  /\ pc[p] = "rename_parent"
  /\ IF ~LookupOk(r) THEN SettleRead(p, GotLookup(r), lk[p], <<>>, CallFailure(r, FALSE), r)
     ELSE LET parent == ParseInt(FidLocalPart(r.data.fid).str) IN
       Continue(p, GotLookup(r), "rename_patch",
                [lk[p] EXCEPT !.filename = JSStr(LeafName(op[p].path2)), !.parent = parent],
                [loc[p] EXCEPT !.parent = parent],
                <<RenameReq(lk[p].fid, op[p].path2, parent)>>)

\* RenameEffects with the refresh before the event
RenameEffectsRefreshFirst(old, new) ==
  <<Refresh, Ev("rename", PathValue(old), PathValue(new))>>

\* RenameEffects that emits the event twice
RenameEffectsEmitTwice(old, new) ==
  <<Ev("rename", PathValue(old), PathValue(new)),
    Ev("rename", PathValue(old), PathValue(new)), Refresh>>

\* what rename does after the PATCH returned 200 and the model validated
RenameEffects(old, new) ==
  <<Ev("rename", PathValue(old), PathValue(new)), Refresh>>

\* RenamePatchResp that notifies before it validates the model
RenamePatchRespNotifiesFirst(p, r) ==
  /\ pc[p] = "rename_patch"
  /\ IF r.net \/ r.status # 200 THEN SettleRead(p, Got(r), lk[p], <<>>, CallFailure(r, FALSE), r)
     ELSE LET model == TryConvert(DataNull, FILETYPE_TO_TYPE(lk[p].filetype),
                                  JSStr(LeafName(op[p].path2)), JSStr(op[p].path2),
                                  r.data.creation_time, r.data.date_modified) IN
       Settle(p, Got(r), lk[p], RenameEffects(op[p].path, op[p].path2),
              IF validateContentsModel(model) THEN Resolved(model) ELSE ValidationFailure(model))

\* rename: the PATCH returned
RenamePatchResp(p, r) ==
  /\ pc[p] = "rename_patch"
  /\ IF r.net \/ r.status # 200 THEN SettleRead(p, Got(r), lk[p], <<>>, CallFailure(r, FALSE), r)
     ELSE LET model == TryConvert(DataNull, FILETYPE_TO_TYPE(lk[p].filetype),
                                  JSStr(LeafName(op[p].path2)), JSStr(op[p].path2),
                                  r.data.creation_time, r.data.date_modified) IN
       IF validateContentsModel(model)
         THEN Settle(p, Got(r), lk[p], RenameEffects(op[p].path, op[p].path2), Resolved(model))
         ELSE Settle(p, Got(r), lk[p], <<>>, ValidationFailure(model))

\* ------------------------------------------------------------ newUntitled
\* `${parent}` : a parent id as the plotly-parent header carries it
ParentHeader(parent) == JSStr(ToStr(parent))

\* POST jupyter-notebooks/upload with the headers plotly-parent and x-file-name
UploadReq(parent, fileName) ==
  Req("POST", "jupyter-notebooks/upload", <<>>, <<>>, ParentHeader(parent), fileName)

\* POST folders with the body {parent, path: "Unnamed Folder"}
FolderReq(parent) == Req("POST", "folders", <<>>, <<>>, parent, <<"Unnamed Folder">>)

\* the creation request of newUntitled for a type and a resolved parent id
NewUntitledReq(type, parent) ==
  IF type = S("notebook") THEN UploadReq(parent, <<"Untitled notebook.ipynb">>)
  ELSE FolderReq(parent)

\* refreshBrowser as newUntitled sets it when no lookup is needed
NewUntitledRootRefresh(type) == type = S("notebook")

\* the parent id newUntitled derives from the looked-up fid
NewUntitledParent(type, fid) ==
  IF type = S("notebook") THEN ParseInt(FidLocalPart(fid).str) ELSE FidLocalPart(fid)

\* newUntitled(options): up to the lookup of options.path, or at the root up
\* to the creation request
NewUntitledCall(p, type, opath) ==
  LET o == [NoOp EXCEPT !.kind = "newUntitled", !.type = type, !.opath = opath] IN
  IF ~Truthy(opath)
    THEN Start(p, o, "new_create", NoLookup,
               [NoLoc EXCEPT !.parent = JSNum(-1), !.refreshBrowser = NewUntitledRootRefresh(type)],
               <<NewUntitledReq(type, JSNum(-1))>>, Pending)
    ELSE Start(p, o, "new_lookup", NoLookup, NoLoc, <<LookupReq(opath.str)>>, Pending)

\* newUntitled: the lookup of options.path returned
NewUntitledLookupResp(p, r) ==
  /\ pc[p] = "new_lookup"
  /\ IF ~LookupOk(r) THEN SettleRead(p, GotLookup(r), lk[p], <<>>, CallFailure(r, FALSE), r)
     ELSE LET parent == NewUntitledParent(op[p].type, r.data.fid) IN
       Continue(p, GotLookup(r), "new_create", r.data, [loc[p] EXCEPT !.parent = parent],
                <<NewUntitledReq(op[p].type, parent)>>)

\* the logical path of the created item
NewLocalPath(opath, newFileName) ==
  IF Truthy(opath) THEN JSStr(ToStr(opath) \o <<"/">> \o ToStr(newFileName)) ELSE newFileName

\* CreateEffects that announces the new entry as a 'save'
CreateEffectsAsSave(model, refreshBrowser) ==
  <<Ev("save", NullValue, ModelValue(model))>> \o (IF refreshBrowser THEN <<Refresh>> ELSE <<>>)

\* what a creating operation does after its model validated
CreateEffects(model, refreshBrowser) ==
  <<Ev("new", NullValue, ModelValue(model))>> \o (IF refreshBrowser THEN <<Refresh>> ELSE <<>>)

\* newUntitled: the creation request returned
NewUntitledCreateResp(p, r) ==
  /\ pc[p] = "new_create"
  /\ IF r.net \/ r.status # 201 THEN SettleRead(p, Got(r), lk[p], <<>>, CallFailure(r, FALSE), r)
     ELSE IF ~r.data.hasFile THEN SettleRead(p, Got(r), lk[p], <<>>, Rejected("TypeError"), r)
     ELSE LET model == TryConvert(r.data.file, op[p].type, r.data.filename,
                                  NewLocalPath(op[p].opath, r.data.filename),
                                  r.data.creation_time, r.data.date_modified) IN
       IF validateContentsModel(model)
         THEN SettleRead(p, Got(r), lk[p], CreateEffects(model, loc[p].refreshBrowser), Resolved(model), r)
         ELSE SettleRead(p, Got(r), lk[p], <<>>, ValidationFailure(model), r)

\* --------------------------------------------------------- saveNotebookAs
\* SaveNotebookAsBegin that never asks for a refresh
SaveNotebookAsBeginNoRefresh(opath) ==
  IF Len(Split(opath, "/")) = 1
    THEN <<"sna_upload",
           [parent |-> JSNum(-1), refreshBrowser |-> FALSE, fileName |-> opath],
           <<UploadReq(JSNum(-1), opath)>>>>
    ELSE <<"sna_parent", NoLoc, <<LookupReq(ParentPath(opath))>>>>

\* saveNotebookAs(options) up to its first await: at the root the upload, in
\* a subdirectory the lookup of the parent path.  <<pc, locals, trace items>>
SaveNotebookAsBegin(opath) ==
  IF Len(Split(opath, "/")) = 1
    THEN <<"sna_upload",
           [parent |-> JSNum(-1), refreshBrowser |-> TRUE, fileName |-> opath],
           <<UploadReq(JSNum(-1), opath)>>>>
    ELSE <<"sna_parent", NoLoc, <<LookupReq(ParentPath(opath))>>>>

\* saveNotebookAs(options), called by the host
SaveNotebookAsCall(p, type, opath) ==
  LET b == SaveNotebookAsBegin(opath.str) IN
  Start(p, [NoOp EXCEPT !.kind = "saveNotebookAs", !.type = type, !.opath = opath],
        b[1], NoLookup, b[2], b[3], Pending)

\* saveNotebookAs: the lookup of the parent path returned
SaveNotebookAsParentResp(p, r) ==
  /\ pc[p] = "sna_parent"
  /\ IF ~LookupOk(r) THEN SettleRead(p, GotLookup(r), lk[p], <<>>, CallFailure(r, FALSE), r)
     ELSE LET parent == ParseInt(FidLocalPart(r.data.fid).str)
              fileName == LeafName(op[p].opath.str) IN
       Continue(p, GotLookup(r), "sna_upload", lk[p],
                [parent |-> parent, refreshBrowser |-> FALSE, fileName |-> fileName],
                <<UploadReq(parent, fileName)>>)

\* saveNotebookAs: the upload returned
SaveNotebookAsUploadResp(p, r) ==
  /\ pc[p] = "sna_upload"
  /\ IF r.net \/ r.status # 201 THEN SettleRead(p, Got(r), lk[p], <<>>, CallFailure(r, FALSE), r)
     ELSE IF ~r.data.hasFile THEN SettleRead(p, Got(r), lk[p], <<>>, Rejected("TypeError"), r)
     ELSE LET model == TryConvert(r.data.file, op[p].type, r.data.filename, op[p].opath,
                                  r.data.creation_time, r.data.date_modified) IN
       IF validateContentsModel(model)
         THEN SettleRead(p, Got(r), lk[p], CreateEffects(model, loc[p].refreshBrowser), Resolved(model), r)
         ELSE SettleRead(p, Got(r), lk[p], <<>>, ValidationFailure(model), r)

\* ------------------------------------------------------------------- save
\* SaveFallsBack that takes only a 404 as "file does not exist"
SaveFallsBackOnNotFound(r) == ~r.net /\ r.status = 404

\* SaveFallsBack that always creates
SaveFallsBackAlways(r) == TRUE

\* the catch around save's existence lookup: any failure of the lookup
SaveFallsBack(r) == ~LookupOk(r)

\* PATCH jupyter-notebooks/{fid} with {content}
SavePatchReq(fid) == Req("PATCH", "jupyter-notebooks/{fid}", fid, <<>>, JSUndefined, <<>>)

\* SaveCall that keys the existence lookup by localPath
SaveCallByLocalPath(p, path, type, opath) ==
  LET o == [NoOp EXCEPT !.kind = "save", !.path = path, !.type = type, !.opath = opath] IN
  IF Truthy(JSStr(path))
    THEN Start(p, o, "save_lookup", NoLookup, NoLoc, <<LookupReq(path)>>, Pending)
    ELSE Start(p, o, "done", NoLookup, NoLoc, <<>>, Rejected("TypeError"))

\* save(localPath, options): up to the existence lookup; without options.path
\* `lookup` is null and reading lookup.fid throws
SaveCall(p, path, type, opath) ==
  LET o == [NoOp EXCEPT !.kind = "save", !.path = path, !.type = type, !.opath = opath] IN
  IF Truthy(opath)
    THEN Start(p, o, "save_lookup", NoLookup, NoLoc, <<LookupReq(opath.str)>>, Pending)
    ELSE Start(p, o, "done", NoLookup, NoLoc, <<>>, Rejected("TypeError"))

\* save: the existence lookup returned
SaveLookupResp(p, r) ==
  /\ pc[p] = "save_lookup"
  /\ IF SaveFallsBack(r)
       THEN LET b == SaveNotebookAsBegin(op[p].opath.str) IN
         Continue(p, GotLookup(r), b[1], lk[p], b[2], <<CallSaveNotebookAs>> \o b[3])
       ELSE Continue(p, GotLookup(r), "save_patch", r.data, loc[p], <<SavePatchReq(r.data.fid)>>)

\* SavePatchResp that takes a 404 of the PATCH for a missing file and creates it
SavePatchRespCreatesOnNotFound(p, r) ==
  /\ pc[p] = "save_patch"
  /\ IF ~r.net /\ r.status = 404
       THEN LET b == SaveNotebookAsBegin(op[p].opath.str) IN
         Continue(p, Got(r), b[1], lk[p], b[2], <<CallSaveNotebookAs>> \o b[3])
     ELSE IF r.net \/ r.status \notin {200, 201} THEN SettleRead(p, Got(r), lk[p], <<>>, CallFailure(r, FALSE), r)
     ELSE LET model == convertToJupyterApi(DataNull, FILETYPE_TO_TYPE(lk[p].filetype),
                                           lk[p].filename, JSStr(op[p].path),
                                           r.data.creation_time, r.data.date_modified) IN
       IF validateContentsModel(model)
         THEN Settle(p, Got(r), lk[p], <<Ev("save", NullValue, ModelValue(model))>>, Resolved(model))
         ELSE Settle(p, Got(r), lk[p], <<>>, ValidationFailure(model))

\* save: the PATCH returned
SavePatchResp(p, r) ==
  /\ pc[p] = "save_patch"
  /\ IF r.net \/ r.status \notin {200, 201} THEN SettleRead(p, Got(r), lk[p], <<>>, CallFailure(r, FALSE), r)
     ELSE LET model == convertToJupyterApi(DataNull, FILETYPE_TO_TYPE(lk[p].filetype),
                                           lk[p].filename, JSStr(op[p].path),
                                           r.data.creation_time, r.data.date_modified) IN
       IF validateContentsModel(model)
         THEN Settle(p, Got(r), lk[p], <<Ev("save", NullValue, ModelValue(model))>>, Resolved(model))
         ELSE Settle(p, Got(r), lk[p], <<>>, ValidationFailure(model))

\* ------------------------------------------------------------------- copy
\* copy(fromFile, toDir): POST to the url of toDir with the body {copy_from}
CopyCall(p, fromFile, toDir) ==
  Start(p, [NoOp EXCEPT !.kind = "copy", !.path = fromFile, !.path2 = toDir], "copy_post",
        NoLookup, NoLoc, <<Req("POST", "{toDir}", <<>>, toDir, JSUndefined, fromFile)>>, Pending)

\* CopyResp that emits the event before it validates the body
CopyRespEmitFirst(p, r) ==
  /\ pc[p] = "copy_post"
  /\ IF r.net \/ r.status # 201 THEN SettleRead(p, Got(r), lk[p], <<>>, CallFailure(r, FALSE), r)
     ELSE SettleRead(p, Got(r), lk[p], <<Ev("new", NullValue, ModelValue(r.data))>>,
                     IF validateContentsModel(r.data) THEN Resolved(r.data)
                     ELSE ValidationFailure(r.data), r)

\* copy: the POST returned
CopyResp(p, r) ==
  /\ pc[p] = "copy_post"
  /\ IF r.net \/ r.status # 201 THEN SettleRead(p, Got(r), lk[p], <<>>, CallFailure(r, FALSE), r)
     ELSE IF validateContentsModel(r.data)
       THEN SettleRead(p, Got(r), lk[p], <<Ev("new", NullValue, ModelValue(r.data))>>,
                       Resolved(r.data), r)
       ELSE SettleRead(p, Got(r), lk[p], <<>>, ValidationFailure(r.data), r)

\* ----------------------------------------------------------------- lookup
\* lookup(localPath), called by the host: GET files/lookup?path=
LookupCall(p, path) ==
  Start(p, [NoOp EXCEPT !.kind = "lookup", !.path = path], "lookup_get",
        NoLookup, NoLoc, <<LookupReq(path)>>, Pending)

\* lookup: the request returned; the body is the result
LookupResp(p, r) ==
  /\ pc[p] = "lookup_get"
  /\ IF ~LookupOk(r) THEN SettleRead(p, GotLookup(r), lk[p], <<>>, CallFailure(r, FALSE), r)
     ELSE Settle(p, GotLookup(r), r.data, <<>>, ResolvedWith("lookup"))

\* ----------------------------------------- operations without a remote call
\* the checkpointID arguments of restoreCheckpoint and deleteCheckpoint
CheckpointIDs == {<<"no-op">>, <<"cp1">>}

\* Immediate that posts to the server's checkpoints endpoint on the way
ImmediateRemote(p, o, r) ==
  Start(p, o, "done", NoLookup, NoLoc,
        <<Req("POST", "checkpoints", <<>>, o.path, JSUndefined, <<>>)>>, r)

\* operation o settles with r in the call itself: no request, no event
Immediate(p, o, r) == Start(p, o, "done", NoLookup, NoLoc, <<>>, r)

\* ------------------------------------------------------- the specification
\* one operation at a time: the host awaits each call before the next
SeqProcs == {1}

Get == \E p \in SeqProcs, path \in GetPaths : GetCall(p, path)
GetLookup == \E p \in SeqProcs, r \in LookupResponses : GetLookupResp(p, r)
GetContent == \E p \in SeqProcs, r \in ContentResponses : GetContentResp(p, r)
Delete == \E p \in SeqProcs, path \in DeletePaths : DeleteCall(p, path)
DeleteLookup == \E p \in SeqProcs, r \in LookupResponses : DeleteLookupResp(p, r)
DeleteTrash == \E p \in SeqProcs, r \in TrashResponses : DeleteTrashResp(p, r)
Rename == \E p \in SeqProcs, old \in RenameOldPaths, new \in RenameNewPaths : RenameCall(p, old, new)
RenameLookup == \E p \in SeqProcs, r \in LookupResponses : RenameLookupResp(p, r)
RenameParent == \E p \in SeqProcs, r \in LookupResponses : RenameParentResp(p, r)
RenamePatch == \E p \in SeqProcs, r \in PatchResponses : RenamePatchResp(p, r)
NewUntitled == \E p \in SeqProcs, type \in NewTypes, opath \in NewPaths : NewUntitledCall(p, type, opath)
NewUntitledLookup == \E p \in SeqProcs, r \in LookupResponses : NewUntitledLookupResp(p, r)
NewUntitledCreate == \E p \in SeqProcs, r \in CreateResponses : NewUntitledCreateResp(p, r)
SaveNotebookAs == \E p \in SeqProcs, type \in SaveTypes, opath \in SaveAsOptPaths : SaveNotebookAsCall(p, type, opath)
SaveNotebookAsParent == \E p \in SeqProcs, r \in LookupResponses : SaveNotebookAsParentResp(p, r)
SaveNotebookAsUpload == \E p \in SeqProcs, r \in CreateResponses : SaveNotebookAsUploadResp(p, r)
Save == \E p \in SeqProcs, path \in SavePaths, type \in SaveTypes, opath \in SaveOptPaths : SaveCall(p, path, type, opath)
SaveLookup == \E p \in SeqProcs, r \in LookupResponses : SaveLookupResp(p, r)
SavePatch == \E p \in SeqProcs, r \in PatchResponses : SavePatchResp(p, r)
Copy == \E p \in SeqProcs, fromFile \in {PathAD}, toDir \in {Root, PathA} : CopyCall(p, fromFile, toDir)
CopyPost == \E p \in SeqProcs, r \in CopyResponses : CopyResp(p, r)
Lookup == \E p \in SeqProcs, path \in {PathA, PathAD} : LookupCall(p, path)
LookupGet == \E p \in SeqProcs, r \in LookupResponses : LookupResp(p, r)
\* getDownloadUrl(localPath): Promise.resolve(url)
GetDownloadUrl ==
  \E p \in SeqProcs :
    Immediate(p, [NoOp EXCEPT !.kind = "getDownloadUrl", !.path = PathAD], ResolvedWith("url"))
\* createCheckpoint(localPath): {id: 'no-op', last_modified: now}
CreateCheckpoint ==
  \E p \in SeqProcs, path \in GetPaths :
    Immediate(p, [NoOp EXCEPT !.kind = "createCheckpoint", !.path = path],
              [ResolvedWith("checkpoint") EXCEPT !.id = <<"no-op">>])
\* listCheckpoints(localPath): []
ListCheckpoints ==
  \E p \in SeqProcs, path \in GetPaths :
    Immediate(p, [NoOp EXCEPT !.kind = "listCheckpoints", !.path = path], ResolvedWith("array"))
\* restoreCheckpoint(localPath, checkpointID): nothing
RestoreCheckpoint ==
  \E p \in SeqProcs, path \in GetPaths, checkpointID \in CheckpointIDs :
    Immediate(p, [NoOp EXCEPT !.kind = "restoreCheckpoint", !.path = path, !.path2 = checkpointID],
              ResolvedWith("undefined"))
\* deleteCheckpoint(localPath, checkpointID): nothing
DeleteCheckpoint ==
  \E p \in SeqProcs, path \in GetPaths, checkpointID \in CheckpointIDs :
    Immediate(p, [NoOp EXCEPT !.kind = "deleteCheckpoint", !.path = path, !.path2 = checkpointID],
              ResolvedWith("undefined"))
\* dispose(): the first call sets the flag and drops the signal's connections
Dispose ==
  /\ drive' = IF drive.isDisposed THEN drive
              ELSE [drive EXCEPT !.isDisposed = TRUE, !.listeners = FALSE]
  /\ UNCHANGED <<pc, op, lk, loc, trace, res, nOps, last, stats>>

Next ==
  \/ Get \/ GetLookup \/ GetContent
  \/ Delete \/ DeleteLookup \/ DeleteTrash
  \/ Rename \/ RenameLookup \/ RenameParent \/ RenamePatch
  \/ NewUntitled \/ NewUntitledLookup \/ NewUntitledCreate
  \/ SaveNotebookAs \/ SaveNotebookAsParent \/ SaveNotebookAsUpload
  \/ Save \/ SaveLookup \/ SavePatch
  \/ Copy \/ CopyPost
  \/ Lookup \/ LookupGet
  \/ GetDownloadUrl
  \/ CreateCheckpoint \/ ListCheckpoints \/ RestoreCheckpoint \/ DeleteCheckpoint
  \/ Dispose

Spec == Init /\ [][Next]_vars

\* ------------------------------------------- saves called concurrently
\* the host calls save while other saves await their responses: every slot
\* of Procs runs its own save of the notebook A/d; a remote call fails at
\* the transport level or succeeds with a full record
Usual(responses) ==
  {r \in responses : r.net \/ (r.status \in {200, 201} /\ r.data.date_modified.t = "string")}

ConcSave(p) == SaveCall(p, PathAD, S("notebook"), JSStr(PathAD))
ConcSaveLookup(p) ==
  \E r \in Usual(LookupResponses) :
    (r.net \/ r.data.filetype = S("jupyter_notebook")) /\ SaveLookupResp(p, r)
ConcSaveParent(p) ==
  \E r \in Usual(LookupResponses) :
    (r.net \/ r.data.filetype = S("fold")) /\ SaveNotebookAsParentResp(p, r)
ConcSaveUpload(p) == \E r \in Usual(CreateResponses) : SaveNotebookAsUploadResp(p, r)
ConcSavePatch(p) == \E r \in Usual(PatchResponses) : SavePatchResp(p, r)

ConcNext ==
  \E p \in Procs :
    \/ ConcSave(p)
    \/ ConcSaveLookup(p)
    \/ ConcSaveParent(p)
    \/ ConcSaveUpload(p)
    \/ ConcSavePatch(p)

ConcSpec == Init /\ [][ConcNext]_vars

\* ------------------------------------------------- reading an operation's trace
NumOf(p, Test(_)) == Len(SelectSeq(trace[p], Test))

IsReq(x) == x.a = "req"
IsResp(x) == x.a = "resp"
IsEvent(x) == x.a = "event"
IsRefresh(x) == x.a = "refresh"
IsSaveNotebookAsCall(x) == x.a = "call" /\ x.ep = "saveNotebookAs"
IsLookupReq(x) == x.a = "req" /\ x.method = "GET" /\ x.ep = "files/lookup"
IsUploadReq(x) == x.a = "req" /\ x.method = "POST" /\ x.ep = "jupyter-notebooks/upload"
IsFolderReq(x) == x.a = "req" /\ x.method = "POST" /\ x.ep = "folders"
IsCreateReq(x) == IsUploadReq(x) \/ IsFolderReq(x)
IsSavePatchReq(x) == x.a = "req" /\ x.method = "PATCH" /\ x.ep = "jupyter-notebooks/{fid}"
IsRenamePatchReq(x) == x.a = "req" /\ x.method = "PATCH" /\ x.ep = "files/{fid}"
IsTrashReq(x) == x.a = "req" /\ x.method = "POST" /\ x.ep = "files/{fid}/trash"
IsHttpDelete(x) == x.a = "req" /\ x.method = "DELETE"
IsContentReq(x) ==
  x.a = "req" /\ x.ep \in {"folders/{fid}", "folders/home", "jupyter-notebooks/{fid}/content"}

\* the i-th item of p's trace is a response
HasResp(p, i) == Len(trace[p]) >= i /\ trace[p][i].a = "resp"

\* the first request of p was a lookup and its response has arrived
FirstLookupReturned(p) == HasResp(p, 2) /\ IsLookupReq(trace[p][1])
FirstLookupOk(p) == FirstLookupReturned(p) /\ trace[p][2].status = 200
FirstLookupFailed(p) == FirstLookupReturned(p) /\ trace[p][2].status # 200

Done(p) == pc[p] = "done"
ResolvedOp(p) == pc[p] = "done" /\ res[p].st = "resolved"
RejectedOp(p) == pc[p] = "done" /\ res[p].st = "rejected"

\* the decimal digits of the local id of a fid "<owner>:<localId>"
LocalDigits(fid) == Split(fid, ":")[2]

\* v is the number that the digits denote
IsNumberOf(v, digits) == v.t = "number" /\ v.num >= 0 /\ NatToStr(v.num) = digits

\* -------------------------------------------------------------------- C1
\* C1 as stated: a save whose existence lookup failed has, when it is over,
\* called saveNotebookAs once, issued exactly one upload POST and no update
\* PATCH, and resolved with the created entry.
C1_AsStated ==
  \A p \in Procs :
    (op[p].kind = "save" /\ FirstLookupFailed(p) /\ Done(p)) =>
      /\ NumOf(p, IsSaveNotebookAsCall) = 1
      /\ NumOf(p, IsUploadReq) = 1
      /\ NumOf(p, IsSavePatchReq) = 0
      /\ res[p].st = "resolved"
      /\ res[p].model.def

\* C1, amended: a save whose existence lookup failed calls saveNotebookAs
\* exactly once, right after the failed lookup, and never issues the update
\* PATCH; the create path issues at most one upload POST; the save settles as
\* the create path does: when it resolves, it resolves with the validated
\* created entry for options.path after one upload and one 'new' event, and
\* when it rejects, it rejects on a response of the create path (the parent
\* lookup or the upload), never on the failed existence lookup.
C1_SaveFallsBackToCreate ==
  \A p \in Procs :
    (op[p].kind = "save" /\ FirstLookupFailed(p)) =>
      /\ NumOf(p, IsSaveNotebookAsCall) = 1
      /\ IsSaveNotebookAsCall(trace[p][3])
      /\ NumOf(p, IsSavePatchReq) = 0
      /\ NumOf(p, IsUploadReq) <= 1
      /\ ResolvedOp(p) =>
           /\ NumOf(p, IsUploadReq) = 1
           /\ res[p].model.def
           /\ res[p].model.f["path"] = op[p].opath
           /\ NumOf(p, IsEvent) = 1
           /\ \E i \in 1 .. Len(trace[p]) :
                trace[p][i] = Ev("new", NullValue, ModelValue(res[p].model))
      /\ RejectedOp(p) =>
           /\ Len(trace[p]) >= 5
           /\ IsResp(trace[p][Len(trace[p])])
           /\ NumOf(p, IsEvent) = 0

\* C1 witness: a save whose lookup failed has resolved through the create path
C1_Witness ==
  \E p \in Procs :
    /\ op[p].kind = "save" /\ FirstLookupFailed(p) /\ ResolvedOp(p)
    /\ NumOf(p, IsUploadReq) = 1

\* -------------------------------------------------------------------- C2
\* C2: a save whose existence lookup succeeded issues the update PATCH to
\* jupyter-notebooks/{fid} exactly once, as its next request and with the fid
\* of that lookup, makes no other lookup, and never enters the create path
\* (no saveNotebookAs call, no upload POST).
C2_SaveUpdatesExisting ==
  \A p \in Procs :
    (op[p].kind = "save" /\ FirstLookupOk(p)) =>
      /\ NumOf(p, IsSavePatchReq) = 1
      /\ IsSavePatchReq(trace[p][3])
      /\ trace[p][3].fid = trace[p][2].fid
      /\ NumOf(p, IsLookupReq) = 1
      /\ NumOf(p, IsUploadReq) = 0
      /\ NumOf(p, IsSaveNotebookAsCall) = 0

\* C2 witness: a save whose lookup succeeded has resolved after its PATCH
C2_Witness ==
  \E p \in Procs :
    /\ op[p].kind = "save" /\ FirstLookupOk(p) /\ ResolvedOp(p)
    /\ NumOf(p, IsSavePatchReq) = 1

\* -------------------------------------------------------------------- C3
\* C3: a rename whose old and new parent paths are equal issues exactly one
\* lookup, for oldPath, and never a second one; once that lookup has
\* succeeded it issues exactly one PATCH files/{fid}, as its next request and
\* with the fid of the lookup, and for a non-root parent the PATCH carries
\* the parent id the lookup returned; when the lookup fails no PATCH is issued.
C3_RenameSameParent ==
  \A p \in Procs :
    (op[p].kind = "rename" /\ ParentPath(op[p].path) = ParentPath(op[p].path2)) =>
      /\ NumOf(p, IsLookupReq) = 1
      /\ trace[p][1] = LookupReq(op[p].path)
      /\ NumOf(p, IsRenamePatchReq) <= 1
      /\ FirstLookupFailed(p) => NumOf(p, IsRenamePatchReq) = 0
      /\ FirstLookupOk(p) =>
           /\ NumOf(p, IsRenamePatchReq) = 1
           /\ IsRenamePatchReq(trace[p][3])
           /\ trace[p][3].fid = trace[p][2].fid
           /\ trace[p][3].fname = LeafName(op[p].path2)
           /\ ParentPath(op[p].path) # <<>> => trace[p][3].parent = trace[p][2].parent

\* C3 witness: a rename inside one subdirectory has resolved
C3_Witness ==
  \E p \in Procs :
    /\ op[p].kind = "rename" /\ ResolvedOp(p)
    /\ ParentPath(op[p].path) = ParentPath(op[p].path2)
    /\ ParentPath(op[p].path) # <<>>

\* -------------------------------------------------------------------- C4
\* the lookups and the PATCH of a rename that moves into newParent
MovesByLookup(p, newParent) ==
  /\ NumOf(p, IsLookupReq) = 2
  /\ trace[p][3] = LookupReq(newParent)
  /\ HasResp(p, 4) /\ trace[p][4].status = 200
  /\ IsRenamePatchReq(trace[p][5])
  /\ NumOf(p, IsRenamePatchReq) = 1
  /\ IsNumberOf(trace[p][5].parent, LocalDigits(trace[p][4].fid))

\* C4 as stated: a rename whose new parent path differs from the old one
\* and that has issued its PATCH has issued exactly one additional lookup,
\* for the new parent path, before the PATCH, and the PATCH carries the
\* numeric local id parsed from that lookup's fid.
C4_AsStated ==
  \A p \in Procs :
    (/\ op[p].kind = "rename"
     /\ ParentPath(op[p].path) # ParentPath(op[p].path2)
     /\ NumOf(p, IsRenamePatchReq) >= 1) =>
      MovesByLookup(p, ParentPath(op[p].path2))

\* C4, amended: a rename whose new parent path differs from the old one and
\* is not the root ('') issues, once the lookup of oldPath has succeeded,
\* exactly one additional lookup, for the new parent path, as its next
\* request; its PATCH follows the success of that lookup and carries the
\* numeric local id parsed from that lookup's fid.
C4_RenameMoves ==
  \A p \in Procs :
    (/\ op[p].kind = "rename"
     /\ ParentPath(op[p].path) # ParentPath(op[p].path2)
     /\ ParentPath(op[p].path2) # <<>>) =>
      /\ NumOf(p, IsLookupReq) <= 2
      /\ FirstLookupOk(p) =>
           /\ NumOf(p, IsLookupReq) = 2
           /\ trace[p][3] = LookupReq(ParentPath(op[p].path2))
      /\ NumOf(p, IsRenamePatchReq) >= 1 => MovesByLookup(p, ParentPath(op[p].path2))

\* C4 witness: a rename into another subdirectory has resolved
C4_Witness ==
  \E p \in Procs :
    /\ op[p].kind = "rename" /\ ResolvedOp(p)
    /\ ParentPath(op[p].path) # ParentPath(op[p].path2)
    /\ ParentPath(op[p].path2) # <<>>
    /\ ParentPath(op[p].path) # <<>>

\* -------------------------------------------------------------------- C5
\* C5: a rename that resolved, with or without a change of parent, emitted
\* exactly one event, {type 'rename', oldValue {path: oldPath}, newValue
\* {path: newPath}}, and triggered exactly one refresh; its trace is the
\* lookups and their responses, then the PATCH, its 200 response, the event
\* and the refresh, in this order.
C5_RenameNotifies ==
  \A p \in Procs :
    (op[p].kind = "rename" /\ ResolvedOp(p)) =>
      LET t == trace[p]
          n == Len(trace[p])
      IN /\ n >= 6
         /\ t[n] = Refresh
         /\ t[n - 1] = Ev("rename", PathValue(op[p].path), PathValue(op[p].path2))
         /\ IsResp(t[n - 2]) /\ t[n - 2].status = 200
         /\ IsRenamePatchReq(t[n - 3])
         /\ \A i \in 1 .. (n - 4) : IsLookupReq(t[i]) \/ IsResp(t[i])
         /\ NumOf(p, IsEvent) = 1
         /\ NumOf(p, IsRefresh) = 1

\* C5 witness: a rename that moved the file has resolved
C5_Witness ==
  \E p \in Procs :
    /\ op[p].kind = "rename" /\ ResolvedOp(p)
    /\ ParentPath(op[p].path) # ParentPath(op[p].path2)
    /\ NumOf(p, IsLookupReq) = 2
    /\ NumOf(p, IsRefresh) = 1

\* -------------------------------------------------------------------- C6
\* C6: a delete that resolved triggered a refresh (exactly one) if and only
\* if the lookup of its path reported parent -1; a delete whose lookup
\* reported another parent, or failed, never triggers a refresh.
C6_DeleteRefreshesAtRoot ==
  \A p \in Procs :
    op[p].kind = "delete" =>
      /\ NumOf(p, IsRefresh) <= 1
      /\ ResolvedOp(p) => (NumOf(p, IsRefresh) = 1 <=> trace[p][2].parent = JSNum(-1))
      /\ (~FirstLookupOk(p) \/ trace[p][2].parent # JSNum(-1)) => NumOf(p, IsRefresh) = 0

\* C6 witness: a delete of a root-level resource has resolved and refreshed
C6_Witness ==
  \E p \in Procs :
    /\ op[p].kind = "delete" /\ ResolvedOp(p)
    /\ trace[p][2].parent = JSNum(-1)
    /\ NumOf(p, IsRefresh) = 1

\* -------------------------------------------------------------------- C7
\* C7: delete first looks up its path; it issues no request other than that
\* lookup and, once the lookup has succeeded, exactly one POST
\* files/{fid}/trash with the fid of the lookup; it never issues an HTTP
\* DELETE; when the trash call returns 200 it emits exactly one event,
\* {type 'delete', oldValue {path}, newValue null}, and otherwise none.
C7_DeleteMovesToTrash ==
  \A p \in Procs :
    op[p].kind = "delete" =>
      /\ trace[p][1] = LookupReq(op[p].path)
      /\ NumOf(p, IsLookupReq) = 1
      /\ NumOf(p, IsHttpDelete) = 0
      /\ NumOf(p, IsReq) = NumOf(p, IsLookupReq) + NumOf(p, IsTrashReq)
      /\ NumOf(p, IsTrashReq) = IF FirstLookupOk(p) THEN 1 ELSE 0
      /\ FirstLookupOk(p) =>
           /\ IsTrashReq(trace[p][3])
           /\ trace[p][3].fid = trace[p][2].fid
      /\ NumOf(p, IsEvent) = IF HasResp(p, 4) /\ trace[p][4].status = 200 THEN 1 ELSE 0
      /\ (HasResp(p, 4) /\ trace[p][4].status = 200) =>
           trace[p][5] = Ev("delete", PathValue(op[p].path), NullValue)

\* C7 witness: a delete has resolved after its trash call returned 200
C7_Witness ==
  \E p \in Procs :
    /\ op[p].kind = "delete" /\ ResolvedOp(p)
    /\ HasResp(p, 4) /\ trace[p][4].status = 200
    /\ NumOf(p, IsEvent) = 1

\* -------------------------------------------------------------------- C8
\* the creation request x carries as parent the number n: in the JSON body
\* of POST folders as a number, in the plotly-parent header of the upload as
\* the number's decimal rendering
CarriesParentNumber(x, n) ==
  IF IsFolderReq(x) THEN x.parent = JSNum(n) ELSE x.parent = JSStr(ToStr(JSNum(n)))

\* the creation request x carries as parent the numeric local id of fid
CarriesLocalId(x, fid) ==
  IF IsFolderReq(x) THEN IsNumberOf(x.parent, LocalDigits(fid))
  ELSE x.parent = JSStr(LocalDigits(fid))

\* C8: a newUntitled of type 'directory' or 'notebook' that has issued its
\* creation call has issued exactly one; without options.path it made no
\* lookup and the call carries parent -1; with options.path it made exactly
\* one lookup, of that path, before the call, the parent it resolved is a
\* number, and the call carries the numeric local id of the looked-up fid
\* (as a number, not as a string).
C8_NewUntitledParent ==
  \A p \in Procs :
    (op[p].kind = "newUntitled" /\ NumOf(p, IsCreateReq) >= 1) =>
      /\ NumOf(p, IsCreateReq) = 1
      /\ IF ~Truthy(op[p].opath)
           THEN /\ NumOf(p, IsLookupReq) = 0
                /\ IsCreateReq(trace[p][1])
                /\ CarriesParentNumber(trace[p][1], -1)
           ELSE /\ NumOf(p, IsLookupReq) = 1
                /\ trace[p][1] = LookupReq(op[p].opath.str)
                /\ FirstLookupOk(p)
                /\ IsCreateReq(trace[p][3])
                /\ TypeOf(loc[p].parent) = "number"
                /\ CarriesLocalId(trace[p][3], trace[p][2].fid)

\* C8 witness: a newUntitled({type: 'directory', path}) has issued its
\* creation call after the lookup of the path
C8_Witness ==
  \E p \in Procs :
    /\ op[p].kind = "newUntitled" /\ op[p].type = S("directory")
    /\ Truthy(op[p].opath)
    /\ FirstLookupOk(p)
    /\ IsFolderReq(trace[p][3])

\* -------------------------------------------------------------------- C9
\* C9: a newUntitled that resolved triggered a refresh if and only if the
\* item was created at the root (no options.path), whatever its type.
C9_NewUntitledRefresh ==
  \A p \in Procs :
    (op[p].kind = "newUntitled" /\ ResolvedOp(p)) =>
      (NumOf(p, IsRefresh) >= 1 <=> ~Truthy(op[p].opath))

\* C9 witness: a newUntitled({type: 'directory'}) at the root has resolved
C9_Witness ==
  \E p \in Procs :
    /\ op[p].kind = "newUntitled" /\ op[p].type = S("directory")
    /\ ~Truthy(op[p].opath)
    /\ ResolvedOp(p)

\* ------------------------------------------------------------------- C10
\* C10: get of a non-empty path issues the lookup of that path first, no
\* other lookup and at most one content request; once the lookup has
\* succeeded its next request is folders/{fid} for filetype 'fold' and
\* jupyter-notebooks/{fid}/content for 'jupyter_notebook', with the fid of
\* the lookup, and for every other filetype it is rejected with the
\* unsupported-type error without a content request.  get('') issues no
\* lookup and exactly one request, GET folders/home.
C10_GetRequests ==
  \A p \in Procs :
    op[p].kind = "get" =>
      IF op[p].path # <<>>
        THEN /\ trace[p][1] = LookupReq(op[p].path)
             /\ NumOf(p, IsLookupReq) = 1
             /\ NumOf(p, IsContentReq) <= 1
             /\ NumOf(p, IsReq) = NumOf(p, IsLookupReq) + NumOf(p, IsContentReq)
             /\ FirstLookupFailed(p) => NumOf(p, IsContentReq) = 0
             /\ FirstLookupOk(p) =>
                  CASE trace[p][2].ft = S("fold") ->
                         trace[p][3] = Req("GET", "folders/{fid}", trace[p][2].fid, <<>>, JSUndefined, <<>>)
                    [] trace[p][2].ft = S("jupyter_notebook") ->
                         trace[p][3] = Req("GET", "jupyter-notebooks/{fid}/content", trace[p][2].fid,
                                           <<>>, JSUndefined, <<>>)
                    [] OTHER ->
                         /\ NumOf(p, IsContentReq) = 0
                         /\ RejectedOp(p)
                         /\ res[p].err = "UnsupportedType"
        ELSE /\ NumOf(p, IsLookupReq) = 0
             /\ trace[p][1] = Req("GET", "folders/home", <<>>, <<>>, JSUndefined, <<>>)
             /\ NumOf(p, IsReq) = 1

\* C10 witness: a get of a path that is neither folder nor notebook was
\* rejected after its lookup
C10_Witness ==
  \E p \in Procs :
    /\ op[p].kind = "get" /\ op[p].path # <<>>
    /\ FirstLookupOk(p)
    /\ trace[p][2].ft = S("grid")
    /\ RejectedOp(p)

\* ------------------------------------------------------------------- C11
\* the path of the entry of a child named filename in the listing of the
\* directory at path: the filename alone in the home directory, else the
\* directory's path, a slash and the filename
ChildPath(path, filename) ==
  IF path = <<>> THEN filename
  ELSE JSStr(path \o <<"/">> \o (IF filename.t = "string" THEN filename.str ELSE <<filename.t>>))

\* operation p is a get that resolved with the listing of a directory
ListingReturned(p) ==
  Done(p) /\ op[p].kind = "get" /\ ResolvedOp(p) /\ last[p].data.t = "listing"

\* C11: the content of a directory listing that get returns is the server's
\* children in the server's order, one entry per child, each entry with
\* content null and with the path ChildPath gives for the child's filename.
C11_ListingChildren ==
  \A p \in Procs : ListingReturned(p) =>
    /\ res[p].model.f["content"] = JSArray
    /\ Len(res[p].model.children) = Len(last[p].data.results)
    /\ \A i \in 1 .. Len(last[p].data.results) :
         LET child == res[p].model.children[i]
             item == last[p].data.results[i]
         IN /\ child.content = JSNull
            /\ child.path = ChildPath(op[p].path, item.filename)
            /\ child.created = item.creation_time
            /\ child.last_modified = item.date_modified

\* a listing of two children of a directory that is not the home directory
C11_Witness ==
  \E p \in Procs :
    ListingReturned(p) /\ op[p].path = PathA /\ Len(res[p].model.children) = 2
\* ------------------------------------------------------------------- C12
\* operation p is a get that resolved after its lookup reported a folder
FolderReturned(p) ==
  /\ Done(p) /\ op[p].kind = "get" /\ ResolvedOp(p)
  /\ FirstLookupOk(p) /\ trace[p][2].ft = S("fold")

\* C12 as stated: get on a path whose lookup reports filetype 'fold' returns
\* an entry with name '' and type 'directory', whatever the folder's filename.
C12_AsStated ==
  \A p \in Procs : FolderReturned(p) =>
    /\ res[p].model.f["name"] = JSStr(<<>>)
    /\ res[p].model.f["type"] = S("directory")

\* C12: get on a path whose lookup reports filetype 'fold' returns an entry
\* with type 'directory' and with the filename the lookup reported as name;
\* the name is '' for the home directory, which get does not look up.
C12_GetFolderName ==
  \A p \in Procs :
    /\ FolderReturned(p) =>
         /\ res[p].model.f["name"] = lk[p].filename
         /\ res[p].model.f["type"] = S("directory")
    /\ (Done(p) /\ op[p].kind = "get" /\ ResolvedOp(p) /\ op[p].path = Root) =>
         /\ res[p].model.f["name"] = JSStr(<<>>)
         /\ res[p].model.f["type"] = S("directory")

\* a folder named 'doc' was looked up and returned
C12_Witness ==
  \E p \in Procs : FolderReturned(p) /\ op[p].path = PathA /\ lk[p].filename = S("doc")
\* ------------------------------------------------------------------- C13
\* the operations that return an entry
ReturningKinds == {"get", "newUntitled", "rename", "save", "saveNotebookAs", "copy"}

\* operation p returned an entry to its caller
EntryReturned(p) == Done(p) /\ ResolvedOp(p) /\ op[p].kind \in ReturningKinds

\* field k of entry m is there and of the coarse type asked of it: a string
\* for name, path, type, created and last_modified, anything but undefined
\* for mimetype, content and format, a boolean for writable
FieldSound(m, k) ==
  /\ m.def
  /\ k \in m.has
  /\ CASE k \in {"name", "path", "type", "created", "last_modified"} -> m.f[k].t = "string"
       [] k \in {"mimetype", "content", "format"} -> m.f[k].t # "undefined"
       [] OTHER -> m.f[k].t = "boolean"

\* the fixed order of the checks
CheckOrder ==
  <<"name", "path", "type", "created", "last_modified", "mimetype", "content", "format">>

\* C13 as stated: no entry lacking one of the nine fields name, path, type,
\* writable, created, last_modified, mimetype, content, format is returned by
\* get, newUntitled, rename, save, saveNotebookAs or copy.
C13_AsStated ==
  \A p \in Procs : EntryReturned(p) =>
    \A k \in {"name", "path", "type", "writable", "created", "last_modified",
              "mimetype", "content", "format"} : FieldSound(res[p].model, k)

\* C13: validateContentsModel checks the eight fields name, path, type,
\* created, last_modified, mimetype, content, format in this order (writable
\* is not checked) and throws at the first that is missing or of the wrong
\* coarse type; no entry lacking one of these eight is returned by get,
\* newUntitled, rename, save, saveNotebookAs or copy.
C13_ValidatedEntries ==
  \A p \in Procs :
    /\ EntryReturned(p) =>
         \A i \in DOMAIN CheckOrder : FieldSound(res[p].model, CheckOrder[i])
    /\ (Done(p) /\ op[p].kind = "copy" /\ trace[p][2].status = 201 /\ last[p].data.def) =>
         LET bad == {i \in DOMAIN CheckOrder : ~FieldSound(last[p].data, CheckOrder[i])} IN
           IF bad = {} THEN ResolvedOp(p) /\ res[p].model = last[p].data
           ELSE LET i == CHOOSE j \in bad : \A l \in bad : j <= l
                    k == CheckOrder[i]
                IN /\ RejectedOp(p)
                   /\ res[p].msg =
                        IF k \notin last[p].data.has THEN <<"Missing property '", k, "'">>
                        ELSE <<"Property '", k, "' is not of type '",
                               IF i <= 5 THEN "string" ELSE "object", "'">>

\* copy threw on a body that lacks path and created, naming path
C13_Witness ==
  \E p \in Procs :
    /\ Done(p) /\ op[p].kind = "copy" /\ RejectedOp(p)
    /\ trace[p][2].status = 201
    /\ last[p].data.def /\ {"path", "created"} \cap last[p].data.has = {}
    /\ res[p].msg = <<"Missing property '", "path", "'">>
\* ------------------------------------------------------------------- C14
\* child entry c of a listing has its required fields with a valid type
ChildSound(c) ==
  /\ \A k \in {"name", "path", "type", "created", "last_modified"} : c[k].t = "string"
  /\ \A k \in {"mimetype", "content", "format"} : c[k].t # "undefined"
  /\ c.writable = TRUE

\* C14: in every directory listing get returns, whatever the server's child
\* records contain or omit, every child entry has all required fields with a
\* valid type; a listing with an unsound child never reaches the caller.
C14_ChildrenSound ==
  \A p \in Procs : ListingReturned(p) =>
    \A i \in DOMAIN res[p].model.children : ChildSound(res[p].model.children[i])

\* get returned a listing with a child whose record had no date_modified
C14_Witness ==
  \E p \in Procs :
    /\ ListingReturned(p)
    /\ \E i \in DOMAIN last[p].data.results : last[p].data.results[i].date_modified = JSUndefined
\* ------------------------------------------------------------------- C15
\* request x changes the remote tree
IsMutatingReq(x) == x.a = "req" /\ x.method # "GET"

\* status is the success status the operation expects of request x
ExpectedStatus(x, status) ==
  IF IsSavePatchReq(x) THEN status \in {200, 201}
  ELSE IF IsLookupReq(x) \/ IsContentReq(x) \/ IsTrashReq(x) \/ IsRenamePatchReq(x)
    THEN status = 200
  ELSE status = 201

\* the i-th item of p's trace is a request that came back without the
\* expected status
FailedAt(p, i) ==
  /\ i \in DOMAIN trace[p] /\ IsReq(trace[p][i])
  /\ HasResp(p, i + 1)
  /\ ~ExpectedStatus(trace[p][i], trace[p][i + 1].status)

\* every event of p follows a mutating request of p that came back with the
\* expected status
EventsFollowSuccess(p) ==
  \A i \in DOMAIN trace[p] : IsEvent(trace[p][i]) =>
    /\ op[p].kind \in MutatingKinds
    /\ \E j \in 1 .. i - 2 :
         /\ IsMutatingReq(trace[p][j]) /\ IsResp(trace[p][j + 1])
         /\ ExpectedStatus(trace[p][j], trace[p][j + 1].status)

\* the operations that do not change the remote tree
ReadingKinds ==
  {"lookup", "get", "getDownloadUrl", "createCheckpoint", "listCheckpoints",
   "restoreCheckpoint", "deleteCheckpoint"}

\* C15 as stated: events only from mutating operations and after the success
\* of the mutating call; an operation with any failed lookup or mutating
\* call emits nothing and refreshes nothing; reading operations never emit;
\* n resolved mutating operations have emitted n events.
C15_AsStated ==
  /\ \A p \in Procs :
       /\ EventsFollowSuccess(p)
       /\ (\E i \in DOMAIN trace[p] : FailedAt(p, i)) =>
            NumOf(p, IsEvent) = 0 /\ NumOf(p, IsRefresh) = 0
       /\ op[p].kind \in ReadingKinds => NumOf(p, IsEvent) = 0
  /\ stats.events = stats.succeeded

\* C15: events only from mutating operations and after the success of the
\* mutating call; an operation with a failed lookup or mutating call emits
\* nothing and refreshes nothing, unless the failed call is the existence
\* lookup of save (the create path that follows emits and refreshes as
\* saveNotebookAs does); reading operations never emit; n resolved mutating
\* operations have emitted n events.
C15_EventsOnSuccess ==
  /\ \A p \in Procs :
       /\ EventsFollowSuccess(p)
       /\ (\E i \in DOMAIN trace[p] : FailedAt(p, i) /\ ~(op[p].kind = "save" /\ i = 1)) =>
            NumOf(p, IsEvent) = 0 /\ NumOf(p, IsRefresh) = 0
       /\ op[p].kind \in ReadingKinds => NumOf(p, IsEvent) = 0
  /\ stats.events = stats.succeeded

\* two mutating operations resolved, the second a save that fell back to the
\* create path, and two events were emitted
C15_Witness ==
  /\ stats.succeeded = 2 /\ stats.events = 2
  /\ \E p \in Procs :
       ResolvedOp(p) /\ op[p].kind = "save" /\ FailedAt(p, 1) /\ NumOf(p, IsEvent) = 1
\* ------------------------------------------------------------------- C16
\* the i-th item of p's trace is a remote call that failed at the transport
\* level
TransportFailedAt(p, i) == HasResp(p, i) /\ trace[p][i].status = -1

\* C16: when a remote call of an operation fails at the transport level,
\* the operation does nothing more (no further request, call, event or
\* refresh) and its promise rejects with the network error; so also for the
\* existence lookup inside save.
C16_TransportFailureRejects ==
  \A p \in Procs : \A i \in DOMAIN trace[p] :
    TransportFailedAt(p, i) =>
      /\ i = Len(trace[p])
      /\ RejectedOp(p)
      /\ res[p].err = "NetworkError"

\* the existence lookup of a save failed at the transport level and the
\* save went on to upload the notebook
C16_Witness ==
  \E p \in Procs :
    /\ op[p].kind = "save" /\ TransportFailedAt(p, 2)
    /\ NumOf(p, IsUploadReq) = 1
    /\ ResolvedOp(p)
\* ------------------------------------------------------------------- C17
\* the requests of p at i and j are the same request
SameRequest(p, i, j) ==
  /\ i < j /\ IsReq(trace[p][i]) /\ IsReq(trace[p][j])
  /\ trace[p][i] = trace[p][j]

\* a request of p that came back with a failure ended p: nothing follows
\* its response and p rejected; save's existence lookup is excepted
FailureEnds(p) ==
  \A i \in DOMAIN trace[p] :
    (FailedAt(p, i) /\ ~(op[p].kind = "save" /\ i = 1)) =>
      i + 1 = Len(trace[p]) /\ RejectedOp(p)

\* C17 as stated: within one operation no remote request is issued twice,
\* and a remote call that returns a failure ends the operation with a
\* rejection, the existence lookup of save excepted.
C17_AsStated ==
  \A p \in Procs :
    /\ \A i, j \in DOMAIN trace[p] : ~SameRequest(p, i, j)
    /\ FailureEnds(p)

\* rename(oldPath, newPath) moves oldPath below itself: the parent path of
\* newPath is oldPath
RenameBelowItself(o) == o.kind = "rename" /\ ParentPath(o.path2) = o.path

\* C17: no request is issued again after it failed, and a remote call that
\* returns a failure ends the operation with a rejection, the existence
\* lookup of save excepted; two requests of one operation are the same only
\* in a rename whose new parent path is oldPath, which looks that path up as
\* the file and, after that lookup succeeded, as the new parent.
C17_NoRetries ==
  \A p \in Procs :
    /\ \A i, j \in DOMAIN trace[p] :
         SameRequest(p, i, j) =>
           /\ RenameBelowItself(op[p])
           /\ i = 1 /\ j = 3 /\ IsLookupReq(trace[p][i])
           /\ ~FailedAt(p, i)
    /\ FailureEnds(p)

\* a delete whose trash request failed: it is over, rejected, with the one
\* trash request
C17_Witness ==
  \E p \in Procs :
    /\ op[p].kind = "delete" /\ RejectedOp(p)
    /\ FailedAt(p, 3) /\ IsTrashReq(trace[p][3])
    /\ NumOf(p, IsTrashReq) = 1
\* ------------------------------------------------------------------- C18
\* operation p rejected with the response error made of its last response
ResponseErrorThrown(p) == RejectedOp(p) /\ res[p].err = "ResponseError"

\* the body of response r is JSON with a message in errors[0]
HasServerMessage(r) ==
  r.eb.parses /\ r.eb.hasErrors /\ Len(r.eb.errors) >= 1 /\ r.eb.errors[1].t = "string"

\* 'Invalid response: <status> <statusText>'
GenericMessage(r) ==
  <<"Invalid response:", " ">> \o NatToStr(r.status) \o <<" ">> \o r.statusText

\* C18: the response error an operation rejects with carries the response
\* (its status code); its message is errors[0].message of the body when the
\* body parses as JSON and has that message, and 'Invalid response: <status>
\* <statusText>' in every other case.
C18_ResponseErrorMessage ==
  \A p \in Procs : ResponseErrorThrown(p) =>
    /\ res[p].status = last[p].status
    /\ res[p].msg = IF HasServerMessage(last[p]) THEN last[p].eb.errors[1].str
                    ELSE GenericMessage(last[p])

\* the content request of a get returned 404 with a message in errors[0],
\* and the get rejected with the generic message
C18_Witness ==
  \E p \in Procs :
    /\ ResponseErrorThrown(p) /\ op[p].kind = "get" /\ IsContentReq(trace[p][Len(trace[p]) - 1])
    /\ HasServerMessage(last[p])
    /\ res[p].msg = <<"Invalid response:", " ", "4", "0", "4", " ", "Not", " ", "Found">>
\* ------------------------------------------------------------------- C19
\* C19: every get, delete, rename and save on a non-empty path (for save the
\* path is options.path, the one it looks up) issues its own lookup of that
\* path before any other remote call; so does an operation called right
\* after one that resolved on the same path.
C19_FreshLookup ==
  \A p \in Procs : (pc[p] # "idle" /\ KeyedByPath(op[p])) =>
    /\ Len(trace[p]) >= 1
    /\ trace[p][1] = LookupReq(LookupKey(op[p]))
    /\ \A i \in DOMAIN trace[p] : IsReq(trace[p][i]) /\ ~IsLookupReq(trace[p][i]) => i > 2

\* the second of two operations on the same path, the first of which
\* resolved, has got the response of its own lookup
C19_Witness ==
  \E p \in Procs :
    /\ stats.again /\ nOps = 2
    /\ KeyedByPath(op[p]) /\ FirstLookupOk(p)
    /\ NumOf(p, IsLookupReq) >= 1
\* ------------------------------------------------------------------- C20
\* a step of an operation: a call, or a response taken
OperationStep == pc' # pc \/ trace' # trace \/ nOps' # nOps

\* C20: every step of every operation other than dispose, whether the
\* operation succeeds or fails, leaves the drive's name, API endpoint,
\* server settings, browser reference and disposed flag (and the signal's
\* connections) as they were.
C20_DriveUnchanged == [][OperationStep => drive' = drive]_vars

\* after a failed operation and a second operation the drive is as it was
\* constructed
C20_Witness ==
  \E p \in Procs :
    /\ nOps = 2 /\ RejectedOp(p) /\ stats.succeeded = 1
    /\ drive = NewDrive
\* ------------------------------------------------------------------- C21
\* the path has a single segment: no slash in it
SingleSegment(path) == \A i \in DOMAIN path : path[i] # "/"

\* the last segment of a path, and the path before its last slash
LastSegment(path) == <<path[Len(path)]>>
BeforeLastSlash(path) == SubSeq(path, 1, Len(path) - 2)

\* x is the 'new' event of an entry at path
IsNewEventAt(x, path) ==
  x.a = "event" /\ x.etype = "new" /\ x.old = NullValue
    /\ x.new.k = "model" /\ x.new.path = path

\* C21: saveNotebookAs(options) with a single-segment options.path makes no
\* lookup, uploads with parent -1 and, when it resolved, has emitted one
\* 'new' event and then triggered one refresh; with several segments its
\* first request is the lookup of the parent path, the upload it issues
\* after it carries the local id of the looked-up fid and, when it resolved,
\* it has emitted one 'new' event and triggered no refresh.  The file name
\* of the upload is the last segment of options.path in both cases.
C21_SaveNotebookAs ==
  \A p \in Procs : op[p].kind = "saveNotebookAs" =>
    LET path == op[p].opath.str
        t == trace[p]
    IN IF SingleSegment(path)
         THEN /\ NumOf(p, IsLookupReq) = 0
              /\ IsUploadReq(t[1]) /\ t[1].parent = JSStr(<<"-", "1">>)
              /\ t[1].fname = LastSegment(path)
              /\ NumOf(p, IsUploadReq) = 1
              /\ ResolvedOp(p) =>
                   /\ Len(t) = 4 /\ t[2].status = 201
                   /\ IsNewEventAt(t[3], path) /\ t[4] = Refresh
         ELSE /\ t[1] = LookupReq(BeforeLastSlash(path))
              /\ NumOf(p, IsLookupReq) = 1
              /\ NumOf(p, IsUploadReq) <= 1
              /\ NumOf(p, IsUploadReq) = 1 =>
                   /\ FirstLookupOk(p)
                   /\ IsUploadReq(t[3]) /\ t[3].parent = JSStr(LocalDigits(t[2].fid))
                   /\ t[3].fname = LastSegment(path)
              /\ ResolvedOp(p) =>
                   /\ Len(t) = 5 /\ t[4].status = 201
                   /\ IsNewEventAt(t[5], path)
                   /\ NumOf(p, IsRefresh) = 0

\* a saveNotebookAs at the root has resolved
C21_Witness ==
  \E p \in Procs :
    /\ op[p].kind = "saveNotebookAs" /\ ResolvedOp(p)
    /\ SingleSegment(op[p].opath.str)
    /\ NumOf(p, IsRefresh) = 1
\* ------------------------------------------------------------------- C22
\* p and q are saves of the same options.path
SavesOfSamePath(p, q) ==
  /\ p # q /\ op[p].kind = "save" /\ op[q].kind = "save"
  /\ pc[p] # "idle" /\ pc[q] # "idle"
  /\ op[p].opath = op[q].opath

RenameIntoRoot(p) == op[p].kind = "rename" /\ ParentPath(op[p].path2) = <<>>

\* C23: a rename whose new parent path is the root ('') issues no lookup
\* other than the one for oldPath, and, that lookup having succeeded, sends
\* parent -1 in the PATCH that follows it at once, whether the old parent
\* was the root or a subdirectory.
C23_RenameIntoRoot ==
  \A p \in Procs :
    RenameIntoRoot(p) =>
      /\ NumOf(p, IsLookupReq) = 1
      /\ trace[p][1] = LookupReq(op[p].path)
      /\ \A i \in 1..Len(trace[p]) :
           IsRenamePatchReq(trace[p][i]) => trace[p][i].parent = JSNum(-1)
      /\ FirstLookupOk(p) =>
           /\ IsRenamePatchReq(trace[p][3])
           /\ trace[p][3].parent = JSNum(-1)
           /\ trace[p][3].fid = trace[p][2].fid

\* a rename from a subdirectory into the root has sent its PATCH, and the
\* looked-up record named another parent than the root
C23_Witness ==
  \E p \in Procs :
    /\ RenameIntoRoot(p) /\ ParentPath(op[p].path) # <<>>
    /\ FirstLookupOk(p) /\ trace[p][2].parent # JSNum(-1)
    /\ NumOf(p, IsRenamePatchReq) = 1
CheckpointKinds == {"createCheckpoint", "listCheckpoints", "restoreCheckpoint", "deleteCheckpoint"}

\* C24: the checkpoint operations issue no request, emit no event and never
\* fail: each is settled by the call itself, createCheckpoint with a
\* checkpoint whose id is 'no-op', listCheckpoints with the empty list,
\* restoreCheckpoint and deleteCheckpoint with nothing, for every path and
\* checkpoint id.
C24_CheckpointStubs ==
  \A p \in Procs :
    op[p].kind \in CheckpointKinds =>
      /\ pc[p] = "done" /\ res[p].st = "resolved"
      /\ trace[p] = <<>>
      /\ op[p].kind = "createCheckpoint" => res[p].val = "checkpoint" /\ res[p].id = <<"no-op">>
      /\ op[p].kind = "listCheckpoints" => res[p].val = "array"
      /\ op[p].kind \in {"restoreCheckpoint", "deleteCheckpoint"} => res[p].val = "undefined"

\* deleteCheckpoint was called with an id no createCheckpoint returned, on a
\* drive that emitted nothing so far
C24_Witness ==
  \E p \in Procs :
    /\ op[p].kind = "deleteCheckpoint" /\ op[p].path2 = <<"cp1">> /\ op[p].path = PathA
    /\ pc[p] = "done" /\ stats.events = 0
\* a field validateContentsModel asks for is absent from entry m
LacksRequired(m) ==
  ~m.def \/ \E i \in 1..Len(CheckOrder) : CheckOrder[i] \notin m.has

\* C25: copy(fromPath, toDir) issues exactly one request, the POST to toDir
\* with body {copy_from: fromPath}, and no lookup. On status 201 the entry
\* of the body is validated before anything is emitted: when a required
\* field is missing copy rejects and emits nothing, and when copy resolves
\* it has emitted exactly one 'new' event carrying that entry, right after
\* the response, and returns that entry. On any other status, and on a
\* transport failure, copy rejects and emits nothing.
C25_Copy ==
  \A p \in Procs :
    op[p].kind = "copy" =>
      /\ trace[p][1] = Req("POST", "{toDir}", <<>>, op[p].path2, JSUndefined, op[p].path)
      /\ NumOf(p, IsReq) = 1
      /\ NumOf(p, IsLookupReq) = 0
      /\ pc[p] = "copy_post" => Len(trace[p]) = 1
      /\ Done(p) =>
           /\ HasResp(p, 2)
           /\ trace[p][2].status # 201 => RejectedOp(p) /\ Len(trace[p]) = 2
           /\ (trace[p][2].status = 201 /\ LacksRequired(last[p].data)) =>
                RejectedOp(p) /\ Len(trace[p]) = 2
           /\ RejectedOp(p) => Len(trace[p]) = 2
           /\ ResolvedOp(p) =>
                /\ trace[p][2].status = 201
                /\ \A i \in 1..Len(CheckOrder) : FieldSound(last[p].data, CheckOrder[i])
                /\ Len(trace[p]) = 3
                /\ trace[p][3] = Ev("new", NullValue, ModelValue(last[p].data))
                /\ res[p].model = last[p].data

\* a copy whose POST returned 201 with a body lacking required fields was
\* rejected
C25_Witness ==
  \E p \in Procs :
    /\ op[p].kind = "copy" /\ RejectedOp(p)
    /\ HasResp(p, 2) /\ trace[p][2].status = 201
    /\ last[p].data.def /\ "created" \notin last[p].data.has
\* the PATCH of save p returned, as a transport failure or with a status
\* other than 200 and 201
SavePatchFailed(p) ==
  /\ Len(trace[p]) >= 4 /\ IsSavePatchReq(trace[p][3])
  /\ trace[p][4].a = "resp" /\ trace[p][4].status \notin {200, 201}

\* C26: save takes the create path only when its initial existence lookup
\* failed. When the lookup succeeded the PATCH follows it, and when that
\* PATCH fails, a not-found answer included, save rejects with the error of
\* the PATCH: saveNotebookAs is not called, no upload is issued and no
\* event is emitted.
C26_FallbackOnLookupOnly ==
  \A p \in Procs :
    op[p].kind = "save" =>
      /\ (NumOf(p, IsSaveNotebookAsCall) > 0 \/ NumOf(p, IsCreateReq) > 0) => FirstLookupFailed(p)
      /\ FirstLookupOk(p) =>
           /\ IsSavePatchReq(trace[p][3]) /\ trace[p][3].fid = trace[p][2].fid
           /\ NumOf(p, IsSavePatchReq) = 1
      /\ SavePatchFailed(p) =>
           /\ RejectedOp(p)
           /\ Len(trace[p]) = 4
           /\ res[p] = CallFailure(last[p], FALSE)
           /\ res[p].err = (IF trace[p][4].status = -1 THEN "NetworkError" ELSE "ResponseError")
           /\ trace[p][4].status # -1 => res[p].status = trace[p][4].status

\* a save found its file by the lookup and its PATCH was answered 404
C26_Witness ==
  \E p \in Procs :
    /\ op[p].kind = "save" /\ FirstLookupOk(p)
    /\ SavePatchFailed(p) /\ trace[p][4].status = 404
    /\ RejectedOp(p) /\ res[p].status = 404
\* the events operation p emitted, in order
EventsOf(p) == SelectSeq(trace[p], IsEvent)

\* C27: every save that resolves has emitted exactly one event: of type
\* 'save' when the file was found and updated by the PATCH, of type 'new'
\* (never 'save') when the lookup failed and the create path was taken; in
\* both cases the event carries the returned entry.
C27_SaveEvent ==
  \A p \in Procs :
    (op[p].kind = "save" /\ ResolvedOp(p)) =>
      /\ Len(EventsOf(p)) = 1
      /\ EventsOf(p)[1].old = NullValue
      /\ EventsOf(p)[1].new = ModelValue(res[p].model)
      /\ FirstLookupReturned(p)
      /\ FirstLookupOk(p) =>
           /\ NumOf(p, IsSavePatchReq) = 1 /\ NumOf(p, IsUploadReq) = 0
           /\ EventsOf(p)[1].etype = "save"
      /\ FirstLookupFailed(p) =>
           /\ NumOf(p, IsSavePatchReq) = 0 /\ NumOf(p, IsUploadReq) = 1
           /\ EventsOf(p)[1].etype = "new"

\* a save whose lookup failed resolved by the create path, in a subdirectory
C27_Witness ==
  \E p \in Procs :
    /\ op[p].kind = "save" /\ ResolvedOp(p) /\ FirstLookupFailed(p)
    /\ ~SingleSegment(op[p].opath.str)
    /\ Len(EventsOf(p)) = 1 /\ EventsOf(p)[1].etype = "new"
\* the operations that validate an entry after a mutating call
ValidatingKinds == {"newUntitled", "saveNotebookAs", "rename", "save", "copy"}

\* the mutating call of p came back with the status p expects: the remote
\* change is made
MutationSucceeded(p) ==
  \E i \in DOMAIN trace[p] :
    /\ IsMutatingReq(trace[p][i]) /\ HasResp(p, i + 1)
    /\ ExpectedStatus(trace[p][i], trace[p][i + 1].status)

\* p was rejected by validateContentsModel
ValidationRejected(p) ==
  RejectedOp(p) /\ res[p].err = "ValidationError"

\* C28: in newUntitled, saveNotebookAs, rename, save and copy the entry is
\* validated after the mutating call succeeded and before the event is
\* emitted: an operation rejected by the validation has made its remote
\* change, and an operation rejected after its mutating call succeeded has
\* emitted no event and triggered no refresh, the response of that call
\* being the last thing it saw; an operation that resolved returns an entry
\* that passes the validation.
C28_ValidationBeforeEvent ==
  \A p \in Procs :
    op[p].kind \in ValidatingKinds =>
      /\ ValidationRejected(p) => MutationSucceeded(p)
      /\ (MutationSucceeded(p) /\ RejectedOp(p)) =>
           /\ res[p].err \in {"ValidationError", "TypeError"}
           /\ NumOf(p, IsEvent) = 0
           /\ NumOf(p, IsRefresh) = 0
           /\ IsResp(trace[p][Len(trace[p])])
      /\ ResolvedOp(p) =>
           /\ MutationSucceeded(p)
           /\ \A i \in 1..Len(CheckOrder) : FieldSound(res[p].model, CheckOrder[i])

\* a rename whose PATCH returned 200 was rejected by the validation: the
\* entry is renamed remotely, and nothing was emitted or refreshed
C28_Witness ==
  \E p \in Procs :
    /\ op[p].kind = "rename" /\ ValidationRejected(p)
    /\ MutationSucceeded(p)
    /\ NumOf(p, IsEvent) = 0 /\ NumOf(p, IsRefresh) = 0
\* the conversion of p threw: the content request of a get returned 200
\* with a listing that holds a null, or the creation request of
\* newUntitled, saveNotebookAs or a save on its create path returned 201
\* with a file whose children hold a null
ConversionThrew(p) ==
  /\ Done(p)
  /\ \/ /\ op[p].kind = "get"
        /\ NumOf(p, IsContentReq) = 1 /\ trace[p][Len(trace[p])].status = 200
        /\ ConvertThrows(last[p].data)
     \/ /\ op[p].kind \in {"newUntitled", "saveNotebookAs", "save"}
        /\ NumOf(p, IsCreateReq) = 1 /\ MutationSucceeded(p)
        /\ last[p].data.hasFile /\ ConvertThrows(last[p].data.file)

\* C29: no operation resolves with an undefined or unvalidated entry: an
\* operation that returns an entry (get, newUntitled, rename, save,
\* saveNotebookAs, copy) and resolved returns a defined entry that passes
\* the validation; and when the conversion threw (in get, newUntitled and
\* saveNotebookAs; the conversion of rename is handed no listing and cannot
\* throw) the operation is rejected by the validation of the missing model
\* and has emitted no event and triggered no refresh.
C29_NoUndefinedEntry ==
  \A p \in Procs :
    /\ EntryReturned(p) =>
         /\ res[p].val = "model"
         /\ res[p].model.def
         /\ \A i \in 1..Len(CheckOrder) : FieldSound(res[p].model, CheckOrder[i])
    /\ ConversionThrew(p) =>
         /\ RejectedOp(p) /\ res[p].err = "TypeError"
         /\ NumOf(p, IsEvent) = 0 /\ NumOf(p, IsRefresh) = 0
    /\ (Done(p) /\ op[p].kind = "rename" /\ MutationSucceeded(p) /\ RejectedOp(p)) =>
         res[p].err = "ValidationError"

\* a newUntitled at the root created its entry remotely, the conversion of
\* the answer threw and the operation was rejected
C29_Witness ==
  \E p \in Procs :
    /\ op[p].kind = "newUntitled" /\ ConversionThrew(p)
    /\ ~Truthy(op[p].opath)
    /\ RejectedOp(p) /\ NumOf(p, IsEvent) = 0
\* C30: a save whose options.path is empty or absent issues no lookup, no
\* PATCH and no upload, emits no event and rejects, in the call itself and
\* whatever localPath is; the existence lookup of a save is keyed by
\* options.path, not by localPath.
C30_SaveWithoutPath ==
  \A p \in Procs :
    op[p].kind = "save" =>
      /\ ~Truthy(op[p].opath) =>
           /\ RejectedOp(p) /\ res[p].err = "TypeError"
           /\ trace[p] = <<>>
      /\ Truthy(op[p].opath) =>
           /\ trace[p][1] = LookupReq(op[p].opath.str)
           /\ \A i \in 1..Len(trace[p]) :
                IsLookupReq(trace[p][i]) =>
                  trace[p][i].path \in {op[p].opath.str, ParentPath(op[p].opath.str)}

\* a save of a named file with an empty options.path was rejected
C30_Witness ==
  \E p \in Procs :
    /\ op[p].kind = "save" /\ op[p].opath = JSStr(Root) /\ op[p].path = PathAD
    /\ RejectedOp(p) /\ trace[p] = <<>>
====
